---------------------------- MODULE Spec2Model ----------------------------
(***************************************************************************)
(* Model of the glTF garment analyzer (src/analyzer_gltf_improved.py):     *)
(* ImprovedGLTFAnalyzer.analyze_gltf_file and the detectors it calls.      *)
(***************************************************************************)
EXTENDS Integers, Sequences, FiniteSets, TLC

\* The analyzer is called MaxRuns times; a scene holds at most MaxMeshes
\* meshes, MaxMaterials materials and MaxNodes nodes.
MaxRuns      == 2
MaxMeshes    == 2
MaxMaterials == 2
MaxNodes     == 2

VARIABLES
    file,                    \* what open(file_path) reads: a scene or invalid JSON
    pc,                      \* the statement analyze_gltf_file is at
    runs,                    \* the calls of analyze_gltf_file so far
    gltf_data,               \* json.load(f)
    garment_elements,        \* the locals of analyze_gltf_file ...
    fabric_properties,
    size_variations,
    accessibility_features,
    confidence_score,
    validation_sources,
    false_positive_flags,
    hit_log,                 \* final_confidence at each primary-keyword hit
    result,                  \* the GLTFAnalysisResult returned, None before
    raised,                  \* the exception the call ended with, None if none
    previous,                \* the result of the call before this one
    session_state,           \* st.session_state of each dashboard session
    uploaded_file,           \* the file in each session's st.file_uploader
    page,                    \* what each session's last script run rendered
    clients,                 \* LLMManager.clients: the configured providers
    chat_sessions,           \* the ChatSession objects created so far
    active_sessions,         \* AccessibilityChatbot.active_sessions
    clock,                   \* datetime.now(), in whole seconds
    in_flight,               \* the chat call each caller is awaiting, if any
    chat_returns             \* what the chat calls returned, oldest first

locals == << gltf_data, garment_elements, fabric_properties, size_variations,
             accessibility_features, confidence_score, validation_sources,
             false_positive_flags >>
analysis == << file, pc, runs, locals, hit_log, result, raised, previous >>
app == << session_state, uploaded_file, page, clients, chat_sessions, active_sessions,
          clock, in_flight, chat_returns >>
vars == << analysis, app >>

(***************************************************************************)
(* Python floats.  Every confidence of the analyzer is an IEEE-754 double  *)
(* within a few ulps of a multiple of 1/20.  A double v is the record      *)
(* [n, e] with  v = n/20 + e/(5 * 2^56)  exactly: n counts twentieths and  *)
(* e is the deviation of the double from n/20, in fifths of 2^-56 (2^-56   *)
(* is the ulp of the doubles in [1/16, 1/8), the finest this program       *)
(* adds).  In units of 2^-56 the double is the integer k = (n*2^54 + e)/5, *)
(* so k mod 64 = (13 * e) mod 64 (13 is the inverse of 5 modulo 64): the   *)
(* low bits that round-to-nearest-even reads depend on e alone.            *)
(***************************************************************************)
Dbl(n, e) == [n |-> n, e |-> e]

D_0_0  == Dbl(0, 0)
D_0_1  == Dbl(2, 2)
D_0_2  == Dbl(4, 4)
D_0_3  == Dbl(6, -4)
D_0_5  == Dbl(10, 0)
D_0_6  == Dbl(12, -8)
D_0_7  == Dbl(14, -16)
D_0_8  == Dbl(16, 16)
D_0_9  == Dbl(18, 8)
D_0_95 == Dbl(19, -16)
D_1_0  == Dbl(20, 0)

FNeg(x) == Dbl(-x.n, -x.e)
FIsNeg(x) == x.n < 0 \/ (x.n = 0 /\ x.e < 0)
FAbs(x) == IF FIsNeg(x) THEN FNeg(x) ELSE x

\* x < y, x <= y, x > y on doubles
FLt(x, y) == x.n < y.n \/ (x.n = y.n /\ x.e < y.e)
FLe(x, y) == ~FLt(y, x)
FGt(x, y) == FLt(y, x)
FMin(x, y) == IF FLt(y, x) THEN y ELSE x
FMax(x, y) == IF FLt(x, y) THEN y ELSE x

\* The spacing of the doubles around a non-negative x, in units of 2^-56.
Ulp(x) ==
    IF FLe(Dbl(40, 0), x) THEN 32
    ELSE IF FLe(D_1_0, x) THEN 16
    ELSE IF FLe(D_0_5, x) THEN 8
    ELSE IF FLe(Dbl(5, 0), x) THEN 4
    ELSE IF x.n >= 3 THEN 2
    ELSE 1

\* Round a non-negative exact sum to the nearest double, ties to even.
RoundPos(x) ==
    LET Nearest(U, r, odd) ==
            Dbl(x.n, x.e + 5 * (IF 2 * r < U THEN -r
                                ELSE IF 2 * r > U THEN U - r
                                ELSE IF odd THEN U - r ELSE -r))
    IN  Nearest(Ulp(x), (13 * x.e) % Ulp(x),
                ((13 * x.e) % (2 * Ulp(x))) >= Ulp(x))

Round(x) == IF FIsNeg(x) THEN FNeg(RoundPos(FNeg(x))) ELSE RoundPos(x)

\* Python's x + y and x - y on floats
FAdd(x, y) == Round(Dbl(x.n + y.n, x.e + y.e))
FSub(x, y) == Round(Dbl(x.n - y.n, x.e - y.e))


(***************************************************************************)
(* Strings are sequences of one-character strings, so that str.lower(),    *)
(* the substring test `k in s` and the regular expressions of the size     *)
(* detector are computed character by character.  A JSON object is a       *)
(* record that holds the keys present; None is Python's None.              *)
(***************************************************************************)
None == "None"
EmptyDict == <<>>
\* None where the other values are objects
NoValue == [none |-> TRUE]

UpperCase == <<"A","B","C","D","E","F","G","H","I","J","K","L","M",
               "N","O","P","Q","R","S","T","U","V","W","X","Y","Z","Ó">>
LowerCase == <<"a","b","c","d","e","f","g","h","i","j","k","l","m",
               "n","o","p","q","r","s","t","u","v","w","x","y","z","ó">>

\* str.lower()
LowerChar(c) ==
    IF \E i \in 1..Len(UpperCase) : UpperCase[i] = c
    THEN LowerCase[CHOOSE i \in 1..Len(UpperCase) : UpperCase[i] = c]
    ELSE c
Lower(s) == [i \in 1..Len(s) |-> LowerChar(s[i])]

\* Python's `k in s` on strings
Contains(s, k) ==
    \E i \in 0..(Len(s) - Len(k)) : \A j \in 1..Len(k) : s[i + j] = k[j]

\* `key in d` and d.get(key, default)
Has(d, key) == key \in DOMAIN d
DictGet(d, key, default) == IF key \in DOMAIN d THEN d[key] ELSE default

Max(a, b) == IF a >= b THEN a ELSE b
Min(a, b) == IF a <= b THEN a ELSE b

\* max(...) of a non-empty sequence of floats
RECURSIVE FMaxSeq(_)
FMaxSeq(s) == IF Len(s) = 1 THEN s[1] ELSE FMax(s[1], FMaxSeq(Tail(s)))

\* Concatenation of a sequence of sequences
RECURSIVE Flatten(_)
Flatten(ss) == IF ss = <<>> THEN <<>> ELSE ss[1] \o Flatten(Tail(ss))

Range(s) == {s[i] : i \in 1..Len(s)}

(***************************************************************************)
(* ImprovedGLTFAnalyzer.__init__: the pattern tables.  Python dicts keep   *)
(* insertion order, so the categories are iterated in the order written.   *)
(***************************************************************************)
garment_context_patterns ==
    [ closures |-> [
          primary |-> << <<"z","i","p","p","e","r">>,
                         <<"b","u","t","t","o","n">>,
                         <<"s","n","a","p">>,
                         <<"v","e","l","c","r","o">>,
                         <<"c","l","o","s","u","r","e">>,
                         <<"f","a","s","t","e","n","e","r">>,
                         <<"c","r","e","m","a","l","l","e","r","a">>,
                         <<"b","o","t","ó","n">> >>,
          context |-> << <<"f","r","o","n","t">>,
                         <<"b","a","c","k">>,
                         <<"s","i","d","e">>,
                         <<"p","o","c","k","e","t">>,
                         <<"c","u","f","f">>,
                         <<"c","o","l","l","a","r">>,
                         <<"f","r","o","n","t","a","l">>,
                         <<"l","a","t","e","r","a","l">> >>,
          exclusions |-> << <<"t","e","x","t","u","r","e">>,
                            <<"p","a","t","t","e","r","n">>,
                            <<"d","e","c","o","r","a","t","i","o","n">>,
                            <<"l","o","g","o">>,
                            <<"t","e","x","t","u","r","a">>,
                            <<"p","a","t","r","ó","n">>,
                            <<"d","e","c","o","r","a","c","i","ó","n">> >> ],
      body_parts |-> [
          primary |-> << <<"s","l","e","e","v","e">>,
                         <<"c","o","l","l","a","r">>,
                         <<"c","u","f","f">>,
                         <<"h","e","m">>,
                         <<"w","a","i","s","t">>,
                         <<"c","h","e","s","t">>,
                         <<"b","a","c","k">>,
                         <<"f","r","o","n","t">>,
                         <<"m","a","n","g","a">>,
                         <<"c","u","e","l","l","o">> >>,
          context |-> << <<"l","e","f","t">>,
                         <<"r","i","g","h","t">>,
                         <<"u","p","p","e","r">>,
                         <<"l","o","w","e","r">>,
                         <<"m","a","i","n">>,
                         <<"b","o","d","y">>,
                         <<"i","z","q","u","i","e","r","d","a">>,
                         <<"d","e","r","e","c","h","a">> >>,
          exclusions |-> << <<"t","e","x","t","u","r","e">>,
                            <<"s","h","a","d","o","w">>,
                            <<"l","i","g","h","t">>,
                            <<"c","a","m","e","r","a">>,
                            <<"t","e","x","t","u","r","a">>,
                            <<"s","o","m","b","r","a">>,
                            <<"l","u","z">> >> ],
      construction |-> [
          primary |-> << <<"s","e","a","m">>,
                         <<"s","t","i","t","c","h">>,
                         <<"b","i","n","d","i","n","g">>,
                         <<"t","r","i","m">>,
                         <<"l","i","n","i","n","g">>,
                         <<"d","a","r","t">>,
                         <<"p","l","e","a","t">>,
                         <<"c","o","s","t","u","r","a">>,
                         <<"p","u","n","t","a","d","a">> >>,
          context |-> << <<"c","o","n","s","t","r","u","c","t","i","o","n">>,
                         <<"s","e","w","i","n","g">>,
                         <<"a","s","s","e","m","b","l","y">>,
                         <<"j","o","i","n">>,
                         <<"c","o","n","s","t","r","u","c","c","i","ó","n">>,
                         <<"c","o","s","i","d","o">> >>,
          exclusions |-> << <<"d","e","c","o","r","a","t","i","o","n">>,
                            <<"p","a","t","t","e","r","n">>,
                            <<"p","r","i","n","t">>,
                            <<"d","e","c","o","r","a","c","i","ó","n">>,
                            <<"p","a","t","r","ó","n">>,
                            <<"e","s","t","a","m","p","a","d","o">> >> ] ]

fabric_indicators ==
    << [category |-> "natural_fibers", type |-> "cotton", indicators |-> 
             << <<"c","o","t","t","o","n">>,
                <<"a","l","g","o","d","ó","n">>,
                <<"c","o","t","o","n">> >>],
       [category |-> "natural_fibers", type |-> "wool", indicators |-> 
             << <<"w","o","o","l">>,
                <<"l","a","n","a">>,
                <<"l","a","i","n","e">> >>],
       [category |-> "natural_fibers", type |-> "silk", indicators |-> 
             << <<"s","i","l","k">>,
                <<"s","e","d","a">>,
                <<"s","o","i","e">> >>],
       [category |-> "natural_fibers", type |-> "linen", indicators |-> 
             << <<"l","i","n","e","n">>,
                <<"l","i","n","o">>,
                <<"l","i","n">> >>],
       [category |-> "synthetic_fibers", type |-> "polyester", indicators |-> 
             << <<"p","o","l","y","e","s","t","e","r">>,
                <<"p","o","l","i","é","s","t","e","r">> >>],
       [category |-> "synthetic_fibers", type |-> "nylon", indicators |-> 
             << <<"n","y","l","o","n">>,
                <<"n","i","l","ó","n">> >>],
       [category |-> "synthetic_fibers", type |-> "acrylic", indicators |-> 
             << <<"a","c","r","y","l","i","c">>,
                <<"a","c","r","í","l","i","c","o">> >>],
       [category |-> "stretch_materials", type |-> "elastane", indicators |-> 
             << <<"e","l","a","s","t","a","n","e">>,
                <<"e","l","a","s","t","a","n","o">>,
                <<"s","p","a","n","d","e","x">>,
                <<"l","y","c","r","a">> >>],
       [category |-> "stretch_materials", type |-> "elastic", indicators |-> 
             << <<"e","l","a","s","t","i","c">>,
                <<"e","l","á","s","t","i","c","o">>,
                <<"s","t","r","e","t","c","h">>,
                <<"e","s","t","i","r","a","b","l","e">> >>] >>

Categories == <<"closures", "body_parts", "construction">>

(***************************************************************************)
(* _analyze_garment_elements_contextual                                    *)
(***************************************************************************)
\* x += d, k times, from 0.0: the context_boost and exclusion_penalty loops
RECURSIVE Accumulate(_, _)
Accumulate(k, d) == IF k = 0 THEN D_0_0 ELSE FAdd(Accumulate(k - 1, d), d)

\* The words of a table that occur in the name, in table order
Matches(words, name) == SelectSeq(words, LAMBDA w : Contains(name, w))

\* final_confidence with the context keywords counted against the element
FinalConfidenceContextPenalized(nctx, nexc) ==
    FMin(D_1_0, FMax(D_0_0,
         FSub(FSub(D_0_8, Accumulate(nctx, D_0_1)), Accumulate(nexc, D_0_3))))

\* final_confidence with a penalty of 0.1 for each exclusion keyword
FinalConfidenceLightPenalty(nctx, nexc) ==
    FMin(D_1_0, FMax(D_0_0,
         FSub(FAdd(D_0_8, Accumulate(nctx, D_0_1)), Accumulate(nexc, D_0_1))))

\* final_confidence without the clamp of max(0.0, min(1.0, ...))
FinalConfidenceUnclamped(nctx, nexc) ==
    FSub(FAdd(D_0_8, Accumulate(nctx, D_0_1)), Accumulate(nexc, D_0_3))

\* final_confidence, from the numbers of context and exclusion matches
FinalConfidence(nctx, nexc) ==
    LET Clamped(base_confidence, context_boost, exclusion_penalty) ==
            FMin(D_1_0, FMax(D_0_0,
                 FSub(FAdd(base_confidence, context_boost), exclusion_penalty)))
    IN  Clamped(D_0_8, Accumulate(nctx, D_0_1), Accumulate(nexc, D_0_3))

\* The threshold of `if final_confidence > 0.5`
ElementRetained(conf) == FGt(conf, D_0_5)

\* One primary keyword found in the lowercased mesh name
ElementOf(keyword, patterns, mesh_name) ==
    LET Element(context_matches, exclusion_matches) ==
            [ element         |-> keyword,
              confidence      |-> FinalConfidence(Len(context_matches),
                                                  Len(exclusion_matches)),
              context_matches |-> context_matches,
              exclusion_flags |-> exclusion_matches,
              validated       |-> Len(context_matches) > 0
                                  /\ Len(exclusion_matches) = 0 ]
    IN  Element(Matches(patterns.context, mesh_name),
                Matches(patterns.exclusions, mesh_name))

\* Every primary-keyword hit of a category, retained or not
CategoryHits(category, mesh_name) ==
    LET Hits(patterns, found) ==
            [k \in 1..Len(found) |-> ElementOf(found[k], patterns, mesh_name)]
    IN  Hits(garment_context_patterns[category],
             Matches(garment_context_patterns[category].primary, mesh_name))

CategoryElements(category, mesh_name) ==
    SelectSeq(CategoryHits(category, mesh_name),
              LAMBDA el : ElementRetained(el.confidence))

ElementConfidences(elements) ==
    [k \in 1..Len(elements) |-> elements[k].confidence]

\* element_analysis['detected_elements'] of one mesh
DetectedElements(mesh_name) ==
    LET CategoryInfo(category, category_elements) ==
            IF category_elements = <<>> THEN <<>>
            ELSE << [ category   |-> category,
                      elements   |-> category_elements,
                      category_confidence |->
                          FMaxSeq(ElementConfidences(category_elements)) ] >>
    IN  Flatten([c \in 1..Len(Categories) |->
                    CategoryInfo(Categories[c],
                                 CategoryElements(Categories[c], mesh_name))])

\* The mesh confidence as the sum of the category confidences
RECURSIVE FSumSeq(_)
FSumSeq(s) == IF s = <<>> THEN D_0_0 ELSE FAdd(FSumSeq(Tail(s)), s[1])

MeshConfidenceSummed(detected) ==
    FSumSeq([k \in 1..Len(detected) |-> detected[k].category_confidence])

MeshConfidence(detected) ==
    FMaxSeq([k \in 1..Len(detected) |-> detected[k].category_confidence])

\* mesh.get('name', '').lower()
MeshName(mesh) == Lower(DictGet(mesh, "name", <<>>))

\* The entry of one mesh: <<>> when the mesh is skipped or detects nothing
ElementAnalysis(i, mesh) ==
    LET Entry(detected) ==
            IF detected = <<>> THEN <<>>
            ELSE << [ mesh_name         |-> mesh.name,
                      mesh_index        |-> i - 1,
                      detected_elements |-> detected,
                      validation_context |-> EmptyDict,
                      confidence_score  |-> MeshConfidence(detected) ] >>
    IN  Entry(IF MeshName(mesh) = <<>> THEN <<>>
              ELSE DetectedElements(MeshName(mesh)))

\* A detector that appends to the list of the analysis before
AnalyzeGarmentElementsAccumulating(data) ==
    LET Each(meshes) ==
            Flatten([i \in 1..Len(meshes) |-> ElementAnalysis(i, meshes[i])])
    IN  (IF previous = NoValue THEN <<>> ELSE previous.garment_elements)
        \o Each(DictGet(data, "meshes", <<>>))

AnalyzeGarmentElementsContextual(data) ==
    LET Each(meshes) ==
            Flatten([i \in 1..Len(meshes) |-> ElementAnalysis(i, meshes[i])])
    IN  Each(DictGet(data, "meshes", <<>>))

\* The value of final_confidence at every primary-keyword hit, kept or dropped
HitLog(data) ==
    LET Hit(i, c, h) ==
            [ mesh_index |-> i - 1, category |-> Categories[c],
              element    |-> h.element,
              nctx       |-> Len(h.context_matches),
              nexc       |-> Len(h.exclusion_flags),
              context_matches |-> h.context_matches,
              exclusion_flags |-> h.exclusion_flags,
              confidence |-> h.confidence ]
        Each(meshes) ==
            UNION { UNION { { Hit(i, c, h) :
                              h \in Range(CategoryHits(Categories[c],
                                                       MeshName(meshes[i]))) } :
                            c \in 1..Len(Categories) } :
                    i \in 1..Len(meshes) }
    IN  Each(DictGet(data, "meshes", <<>>))

(***************************************************************************)
(* _classify_fabric_from_pbr                                               *)
(***************************************************************************)
AnyIndicatorIn(indicators, text) ==
    \E k \in 1..Len(indicators) : Contains(text, indicators[k])

\* The entries of fabric_indicators with an indicator in the text, in order
FabricsNamedIn(text) ==
    SelectSeq(fabric_indicators, LAMBDA f : AnyIndicatorIn(f.indicators, text))

\* fabric_name_match: both loops break at the first fabric type that matches
FabricNameMatch(mat_name) ==
    LET First(named) == IF named = <<>> THEN None ELSE named[1].type
    IN  First(FabricsNamedIn(mat_name))

\* A classification that counts the ends of [0.2, 0.7] as metal and as
\* non-metal
ClassifyFabricFromPbrInclusive(roughness, metallic, mat_name) ==
    IF FLe(D_0_7, metallic)
    THEN [ type |-> "metallic_hardware", confidence |-> D_0_9,
           reasoning |-> <<"high_metallic">> ]
    ELSE IF FLe(metallic, D_0_2)
    THEN IF FGt(roughness, D_0_8)
         THEN [ type |-> "rough_fabric", confidence |-> D_0_7,
                reasoning |-> <<"high_roughness">> ]
         ELSE IF FLt(roughness, D_0_3)
         THEN [ type |-> "smooth_fabric", confidence |-> D_0_6,
                reasoning |-> <<"low_roughness">> ]
         ELSE [ type |-> "standard_fabric", confidence |-> D_0_5,
                reasoning |-> <<"medium_roughness">> ]
    ELSE [ type |-> "unknown", confidence |-> D_0_0, reasoning |-> <<>> ]

\* A classification that reads the roughness before the metallic factor
ClassifyFabricFromPbrRoughFirst(roughness, metallic, mat_name) ==
    IF FGt(roughness, D_0_8)
    THEN [ type |-> "rough_fabric", confidence |-> D_0_7,
           reasoning |-> <<"high_roughness">> ]
    ELSE IF FGt(metallic, D_0_7)
    THEN [ type |-> "metallic_hardware", confidence |-> D_0_9,
           reasoning |-> <<"high_metallic">> ]
    ELSE IF FLt(metallic, D_0_2)
    THEN [ type |-> "standard_fabric", confidence |-> D_0_5,
           reasoning |-> <<"medium_roughness">> ]
    ELSE [ type |-> "unknown", confidence |-> D_0_0, reasoning |-> <<>> ]

ClassifyFabricFromPbr(roughness, metallic, mat_name) ==
    LET Classified(fabric_name_match) ==
            IF FGt(metallic, D_0_7)
            THEN [ type |-> "metallic_hardware", confidence |-> D_0_9,
                   reasoning |-> <<"high_metallic">> ]
            ELSE IF FLt(metallic, D_0_2)
            THEN IF FGt(roughness, D_0_8)
                 THEN IF fabric_name_match \in {"cotton", "linen"}
                      THEN [ type |-> fabric_name_match, confidence |-> D_0_9,
                             reasoning |-> <<"high_roughness", "name_validation">> ]
                      ELSE [ type |-> "rough_fabric", confidence |-> D_0_7,
                             reasoning |-> <<"high_roughness">> ]
                 ELSE IF FLt(roughness, D_0_3)
                 THEN IF fabric_name_match \in {"silk"}
                      THEN [ type |-> fabric_name_match, confidence |-> D_0_9,
                             reasoning |-> <<"low_roughness", "name_validation">> ]
                      ELSE [ type |-> "smooth_fabric", confidence |-> D_0_6,
                             reasoning |-> <<"low_roughness">> ]
                 ELSE [ type |-> "standard_fabric", confidence |-> D_0_5,
                        reasoning |-> <<"medium_roughness">> ]
            ELSE [ type |-> "unknown", confidence |-> D_0_0, reasoning |-> <<>> ]
    IN  Classified(FabricNameMatch(mat_name))

(***************************************************************************)
(* _validate_material_with_textures                                        *)
(***************************************************************************)
\* texture_refs: the slots present, each with the object that holds its
\* index (slot.get('index') is None when the key is missing)
TextureRefs(material) ==
    LET Refs(pbr) ==
            (IF Has(pbr, "baseColorTexture")
             THEN << <<"diffuse", pbr.baseColorTexture>> >> ELSE <<>>)
            \o (IF Has(pbr, "metallicRoughnessTexture")
                THEN << <<"metallic_roughness", pbr.metallicRoughnessTexture>> >>
                ELSE <<>>)
            \o (IF Has(material, "normalTexture")
                THEN << <<"normal", material.normalTexture>> >> ELSE <<>>)
    IN  Refs(DictGet(material, "pbrMetallicRoughness", EmptyDict))

\* `index is not None and index < len(table)`, index = holder.get(key)
IndexGuard(holder, key, table) == Has(holder, key) /\ holder[key] < Len(table)

\* table[index] raises IndexError below -len(table); a negative index within
\* range counts from the end of the list.
IndexRaises(index, table) == index < -Len(table)
ListItem(table, index) ==
    IF index >= 0 THEN table[index + 1] ELSE table[Len(table) + index + 1]

\* (image.get('name', '') or image.get('uri', '')).lower()
ImageName(image) ==
    LET NameOr(name, uri) == Lower(IF name # <<>> THEN name ELSE uri)
    IN  NameOr(DictGet(image, "name", <<>>), DictGet(image, "uri", <<>>))

\* The candidates one image name yields for a slot of type tex_type
IndicatorsFound(tex_type, image_name) ==
    LET Candidates(named) ==
            [k \in 1..Len(named) |->
                [ type         |-> named[k].type,
                  texture_type |-> tex_type,
                  confidence   |-> IF tex_type = "diffuse" THEN D_0_7 ELSE D_0_5,
                  image_name   |-> image_name ]]
    IN  Candidates(FabricsNamedIn(image_name))

\* One texture reference: the candidates it adds, or the IndexError it raises
ResolveTextureRef(ref, textures, images) ==
    LET OfTexture(tex_type, texture) ==
            IF ~IndexGuard(texture, "source", images)
            THEN [raised |-> FALSE, found |-> <<>>]
            ELSE IF IndexRaises(texture.source, images)
            THEN [raised |-> TRUE, found |-> <<>>]
            ELSE [ raised |-> FALSE,
                   found  |-> IndicatorsFound(tex_type,
                                  ImageName(ListItem(images, texture.source))) ]
        OfSlot(tex_type, slot) ==
            IF ~IndexGuard(slot, "index", textures)
            THEN [raised |-> FALSE, found |-> <<>>]
            ELSE IF IndexRaises(slot.index, textures)
            THEN [raised |-> TRUE, found |-> <<>>]
            ELSE OfTexture(tex_type, ListItem(textures, slot.index))
    IN  OfSlot(ref[1], ref[2])

ValidateMaterialWithTextures(material, textures, images) ==
    LET Validation(raises, fabric_indicators_found) ==
            IF raises
            THEN [ raised |-> TRUE, confidence |-> D_0_0,
                   properties |-> EmptyDict, sources |-> <<>> ]
            ELSE IF fabric_indicators_found = <<>>
            THEN [ raised |-> FALSE, confidence |-> D_0_0,
                   properties |-> EmptyDict, sources |-> <<>> ]
            ELSE [ raised |-> FALSE,
                   confidence |->
                       FMaxSeq([k \in 1..Len(fabric_indicators_found) |->
                                   fabric_indicators_found[k].confidence]),
                   properties |-> [texture_indicators |-> fabric_indicators_found],
                   sources |-> <<"texture_analysis">> ]
        Resolved(resolved) ==
            Validation(\E k \in 1..Len(resolved) : resolved[k].raised,
                       Flatten([k \in 1..Len(resolved) |-> resolved[k].found]))
        Each(refs) ==
            Resolved([k \in 1..Len(refs) |->
                         ResolveTextureRef(refs[k], textures, images)])
    IN  Each(TextureRefs(material))

(***************************************************************************)
(* _analyze_fabric_properties_advanced                                     *)
(***************************************************************************)
Digits == <<"0","1","2","3","4","5","6","7","8","9">>

\* str(i) of a non-negative integer
RECURSIVE IntToStr(_)
IntToStr(i) ==
    IF i < 10 THEN <<Digits[i + 1]>> ELSE IntToStr(i \div 10) \o <<Digits[(i % 10) + 1]>>

\* f'material_{i}'
DefaultMaterialName(i) ==
    <<"m","a","t","e","r","i","a","l","_">> \o IntToStr(i)

\* material.get('name', f'material_{i}'), i counted from 0
MatName(material, i) == DictGet(material, "name", DefaultMaterialName(i))

\* dict.update(new): the keys of new replace those of old
Update(old, new) == new @@ old

StretchThreshold == 100000

\* Step 1: the CLO3D extension sets the confidence to 0.95
AfterExtension(ma, material) ==
    LET Stretch(clo_ext, warp, weft) ==
            IF clo_ext = EmptyDict THEN ma
            ELSE [ ma EXCEPT
                     !.properties = Update(@,
                         [ stretch_warp |-> warp,
                           stretch_weft |-> weft,
                           weight       |-> DictGet(clo_ext, "Weight", 0),
                           thickness    |-> DictGet(clo_ext, "Thickness", 0),
                           has_stretch  |-> (warp > StretchThreshold
                                             \/ weft > StretchThreshold) ]),
                     !.confidence = D_0_95,
                     !.validation_sources = Append(@, "CLO3D_extension") ]
        Extension(clo_ext) ==
            Stretch(clo_ext, DictGet(clo_ext, "Stretch-Warp", 0),
                    DictGet(clo_ext, "Stretch-Weft", 0))
    IN  Extension(IF Has(material, "extensions")
                  THEN DictGet(material.extensions, "CLO_material_properties",
                               EmptyDict)
                  ELSE EmptyDict)

\* Step 2 assigning the classification's confidence without comparing
AfterPbrOverriding(ma, material) ==
    LET Classified(pbr, roughness, metallic, fabric_classification) ==
            IF pbr = EmptyDict THEN ma
            ELSE [ ma EXCEPT
                     !.properties = Update(@,
                         [ roughness      |-> roughness,
                           metallic       |-> metallic,
                           fabric_type    |-> fabric_classification.type,
                           pbr_confidence |-> fabric_classification.confidence ]),
                     !.confidence = fabric_classification.confidence,
                     !.validation_sources = Append(@, "PBR_analysis") ]
        Factors(pbr, roughness, metallic) ==
            Classified(pbr, roughness, metallic,
                       ClassifyFabricFromPbr(roughness, metallic, Lower(ma.name)))
        Block(pbr) ==
            Factors(pbr, DictGet(pbr, "roughnessFactor", D_0_5),
                    DictGet(pbr, "metallicFactor", D_0_0))
    IN  Block(DictGet(material, "pbrMetallicRoughness", EmptyDict))

\* Step 2: the PBR classification raises the confidence, never lowers it
AfterPbr(ma, material) ==
    LET Classified(pbr, roughness, metallic, fabric_classification) ==
            IF pbr = EmptyDict THEN ma
            ELSE [ ma EXCEPT
                     !.properties = Update(@,
                         [ roughness      |-> roughness,
                           metallic       |-> metallic,
                           fabric_type    |-> fabric_classification.type,
                           pbr_confidence |-> fabric_classification.confidence ]),
                     !.confidence = IF FLt(@, fabric_classification.confidence)
                                    THEN fabric_classification.confidence ELSE @,
                     !.validation_sources = Append(@, "PBR_analysis") ]
        Factors(pbr, roughness, metallic) ==
            Classified(pbr, roughness, metallic,
                       ClassifyFabricFromPbr(roughness, metallic, Lower(ma.name)))
        Block(pbr) ==
            Factors(pbr, DictGet(pbr, "roughnessFactor", D_0_5),
                    DictGet(pbr, "metallicFactor", D_0_0))
    IN  Block(DictGet(material, "pbrMetallicRoughness", EmptyDict))

\* Step 3 adding the confidence of the texture validation to the others
AfterTexturesSummed(ma, texture_validation) ==
    IF ~FGt(texture_validation.confidence, D_0_0) THEN ma
    ELSE [ ma EXCEPT
             !.properties = Update(@, texture_validation.properties),
             !.confidence = FAdd(@, texture_validation.confidence),
             !.validation_sources = @ \o texture_validation.sources ]

\* Step 3: the texture validation, when it found something
AfterTextures(ma, texture_validation) ==
    IF ~FGt(texture_validation.confidence, D_0_0) THEN ma
    ELSE [ ma EXCEPT
             !.properties = Update(@, texture_validation.properties),
             !.confidence = FMax(@, texture_validation.confidence),
             !.validation_sources = @ \o texture_validation.sources ]

\* The threshold of `if material_analysis['confidence'] > 0.3`
MaterialRetained(conf) == FGt(conf, D_0_3)

\* One iteration of the loop over the materials; i is the index from 0
MaterialAnalysis(i, material, textures, images) ==
    LET Step(fresh, texture_validation) ==
            [ raised   |-> texture_validation.raised,
              analysis |-> AfterTextures(
                               AfterPbr(AfterExtension(fresh, material), material),
                               texture_validation) ]
    IN  Step([ name |-> MatName(material, i), index |-> i,
               properties |-> EmptyDict, confidence |-> D_0_0,
               validation_sources |-> <<>> ],
             ValidateMaterialWithTextures(material, textures, images))

\* The loop storing a retained material under its name and under its
\* default name as well
RECURSIVE FabricLoopKeepingBoth(_, _, _, _, _)
FabricLoopKeepingBoth(materials, i, textures, images, fabric_analysis) ==
    LET Add(ma) ==
            FabricLoopKeepingBoth(materials, i + 1, textures, images,
                [ fabric_analysis EXCEPT
                    !.validation_methods = @ \o ma.validation_sources,
                    !.materials = IF MaterialRetained(ma.confidence)
                                  THEN (ma.name :> ma)
                                       @@ (DefaultMaterialName(i - 1) :> ma) @@ @
                                  ELSE @ ])
        After(step) ==
            IF step.raised THEN [fabric_analysis EXCEPT !.raised = TRUE]
            ELSE Add(step.analysis)
    IN  IF i > Len(materials) THEN fabric_analysis
        ELSE After(MaterialAnalysis(i - 1, materials[i], textures, images))

\* The loop keeping the first material of a name instead of the last
RECURSIVE FabricLoopKeepingFirst(_, _, _, _, _)
FabricLoopKeepingFirst(materials, i, textures, images, fabric_analysis) ==
    LET Add(ma) ==
            FabricLoopKeepingFirst(materials, i + 1, textures, images,
                [ fabric_analysis EXCEPT
                    !.validation_methods = @ \o ma.validation_sources,
                    !.materials = IF MaterialRetained(ma.confidence)
                                  THEN @ @@ (ma.name :> ma) ELSE @ ])
        After(step) ==
            IF step.raised THEN [fabric_analysis EXCEPT !.raised = TRUE]
            ELSE Add(step.analysis)
    IN  IF i > Len(materials) THEN fabric_analysis
        ELSE After(MaterialAnalysis(i - 1, materials[i], textures, images))

\* The loop: fabric_analysis after the materials from position i on
RECURSIVE FabricLoop(_, _, _, _, _)
FabricLoop(materials, i, textures, images, fabric_analysis) ==
    LET Add(ma) ==
            FabricLoop(materials, i + 1, textures, images,
                [ fabric_analysis EXCEPT
                    !.validation_methods = @ \o ma.validation_sources,
                    !.materials = IF MaterialRetained(ma.confidence)
                                  THEN (ma.name :> ma) @@ @ ELSE @ ])
        After(step) ==
            IF step.raised THEN [fabric_analysis EXCEPT !.raised = TRUE]
            ELSE Add(step.analysis)
    IN  IF i > Len(materials) THEN fabric_analysis
        ELSE After(MaterialAnalysis(i - 1, materials[i], textures, images))

\* The means the analyzer reports (the average of a confidence list, the
\* scale factor, the overall confidence) are computed in exact rational
\* arithmetic on the nominal value n/20 of each confidence: a mean is
\* compared with nothing in the analyzer, so the rounding of these last
\* operations decides no outcome.
RECURSIVE SumSeq(_)
SumSeq(q) == IF q = <<>> THEN 0 ELSE q[1] + SumSeq(Tail(q))

RECURSIVE GCD(_, _)
GCD(a, b) == IF b = 0 THEN a ELSE GCD(b, a % b)

\* The fraction num/den in lowest terms, den > 0
Rat(num, den) ==
    LET Reduced(g) == [num |-> num \div g, den |-> den \div g]
    IN  Reduced(GCD(IF num < 0 THEN -num ELSE num, den))
RatAdd(a, b) == Rat(a.num * b.den + b.num * a.den, a.den * b.den)
RatMul(a, b) == Rat(a.num * b.num, a.den * b.den)
RatLe(a, b)  == a.num * b.den <= b.num * a.den
RatZero == Rat(0, 1)

\* The nominal value of a float
Nominal(x) == Rat(x.n, 20)

RECURSIVE RatSum(_)
RatSum(q) == IF q = <<>> THEN RatZero ELSE RatAdd(q[1], RatSum(Tail(q)))

\* sum(confidences) / len(confidences)
Average(confidences) ==
    RatMul(RatSum([k \in 1..Len(confidences) |-> Nominal(confidences[k])]),
           Rat(1, Len(confidences)))

\* dict.values() as a list, in some order of the keys
RECURSIVE Values(_)
Values(d) ==
    LET From(k) == <<d[k]>> \o Values([x \in (DOMAIN d) \ {k} |-> d[x]])
    IN  IF DOMAIN d = {} THEN <<>>
        ELSE From(CHOOSE x \in DOMAIN d : TRUE)

\* How many of the dict's values have a confidence of the level
ConfidenceCount(materials, level) ==
    LET IsOf(c) ==
            CASE level = "high"   -> FGt(c, D_0_8)
              [] level = "medium" -> FLe(D_0_6, c) /\ FLe(c, D_0_8)
              [] level = "low"    -> FLt(c, D_0_6)
    IN  Cardinality({ name \in DOMAIN materials :
                        IsOf(materials[name].confidence) })

ConfidenceDistribution(materials) ==
    LET Mean(confidences) ==
            Average([k \in 1..Len(confidences) |-> confidences[k].confidence])
    IN  IF DOMAIN materials = {} THEN EmptyDict
        ELSE [ high_confidence   |-> ConfidenceCount(materials, "high"),
               medium_confidence |-> ConfidenceCount(materials, "medium"),
               low_confidence    |-> ConfidenceCount(materials, "low"),
               average           |-> Mean(Values(materials)) ]

\* The result, or raised = TRUE when a texture lookup raised IndexError
AnalyzeFabricPropertiesAdvanced(data) ==
    LET Analysis(looped) ==
            [ raised |-> looped.raised,
              materials |-> looped.materials,
              confidence_distribution |-> ConfidenceDistribution(looped.materials),
              validation_methods |-> looped.validation_methods ]
        Each(materials, textures, images) ==
            Analysis(FabricLoop(materials, 1, textures, images,
                        [ raised |-> FALSE, materials |-> EmptyDict,
                          validation_methods |-> <<>> ]))
    IN  Each(DictGet(data, "materials", <<>>), DictGet(data, "textures", <<>>),
             DictGet(data, "images", <<>>))

(***************************************************************************)
(* _analyze_size_variations_validated: the three regular expressions, each *)
(* of the shape \b(alt|alt|...)\b, and re.findall on them.  An alternative *)
(* is a sequence of items: a literal, or a character class repeated        *)
(* (star: zero or more times, plus: once or more).                         *)
(***************************************************************************)
IsDigit(c)  == c \in Range(Digits)
IsLetter(c) == c \in Range(LowerCase) \cup Range(UpperCase)
              \cup {"é", "í", "á", "ú", "ñ"}
\* \w and \s
IsWordChar(c) == IsLetter(c) \/ IsDigit(c) \/ c = "_"
IsSpace(c)    == c \in {" ", "\t", "\n", "\r", "\f"}

InClass(class, c) ==
    CASE class = "sep"      -> c = "_" \/ IsSpace(c)         \* [_\s]
      [] class = "digit"    -> IsDigit(c)                    \* \d
      [] class = "digitdot" -> IsDigit(c) \/ c = "."         \* [\d.]

Lit(text)    == [kind |-> "lit", text |-> text]
Star(class)  == [kind |-> "star", class |-> class]
Plus(class)  == [kind |-> "plus", class |-> class]

size_patterns ==
    << [ type |-> "explicit_sizes",
         alternatives |-> <<
             << Lit(<<"x","s">>) >>,
             << Lit(<<"s">>) >>,
             << Lit(<<"m">>) >>,
             << Lit(<<"l">>) >>,
             << Lit(<<"x","l">>) >>,
             << Lit(<<"x","x","l">>) >>,
             << Lit(<<"x","x","x","l">>) >>,
             << Lit(<<"s","m","a","l","l">>) >>,
             << Lit(<<"m","e","d","i","u","m">>) >>,
             << Lit(<<"l","a","r","g","e">>) >>,
             << Lit(<<"c","h","i","c","o">>) >>,
             << Lit(<<"m","e","d","i","a","n","o">>) >>,
             << Lit(<<"g","r","a","n","d","e">>) >> >> ],
       [ type |-> "numeric_sizes",
         alternatives |-> <<
             << Lit(<<"s","i","z","e">>), Star("sep"), Plus("digit") >>,
             << Lit(<<"t","a","l","l","a">>), Star("sep"), Plus("digit") >>,
             << Plus("digit"), Star("sep"), Lit(<<"s","i","z","e">>) >> >> ],
       [ type |-> "scale_variants",
         alternatives |-> <<
             << Lit(<<"s","c","a","l","e">>), Star("sep"), Plus("digitdot") >>,
             << Lit(<<"v","a","r","i","a","n","t">>), Star("sep"), Plus("digit") >>,
             << Lit(<<"e","s","c","a","l","a">>), Star("sep"), Plus("digitdot") >> >> ] >>

\* \b after the first p characters of s
WordBoundary(s, p) ==
    (p >= 1 /\ IsWordChar(s[p])) # (p < Len(s) /\ IsWordChar(s[p + 1]))

\* How many characters of the class follow the first p characters of s
RECURSIVE RunLength(_, _, _)
RunLength(class, s, p) ==
    IF p < Len(s) /\ InClass(class, s[p + 1]) THEN 1 + RunLength(class, s, p + 1) ELSE 0

\* The offsets at which items k.. of an alternative can end, matched from
\* offset p, over every way to backtrack
RECURSIVE MatchEnds(_, _, _, _)
MatchEnds(items, k, s, p) ==
    LET Repeated(item, least) ==
            UNION { MatchEnds(items, k + 1, s, p + n) :
                    n \in least..RunLength(item.class, s, p) }
        Item(item) ==
            IF item.kind = "lit"
            THEN IF p + Len(item.text) <= Len(s)
                    /\ \A j \in 1..Len(item.text) : s[p + j] = item.text[j]
                 THEN MatchEnds(items, k + 1, s, p + Len(item.text))
                 ELSE {}
            ELSE Repeated(item, IF item.kind = "plus" THEN 1 ELSE 0)
    IN  IF k > Len(items) THEN {p} ELSE Item(items[k])

SetMax(S) == CHOOSE x \in S : \A y \in S : y <= x

\* Where the match of \b(...)\b that starts at offset p ends, or -1.  The
\* first alternative that can match wins; in it the repetitions are greedy,
\* and as neighbouring classes share no character that is the longest match.
MatchAt(alternatives, s, p) ==
    LET ends(a) == {e \in MatchEnds(alternatives[a], 1, s, p) : WordBoundary(s, e)}
        First(able) ==
            IF ~WordBoundary(s, p) \/ able = {} THEN -1
            ELSE SetMax(ends(CHOOSE a \in able : \A b \in able : a <= b))
    IN  First({a \in 1..Len(alternatives) : ends(a) # {}})

\* re.findall: the matches left to right, none overlapping
RECURSIVE FindAll(_, _, _)
FindAll(alternatives, s, p) ==
    LET Match(e) ==
            IF e < 0 THEN FindAll(alternatives, s, p + 1)
            ELSE <<SubSeq(s, p + 1, e)>> \o FindAll(alternatives, s, e)
    IN  IF p >= Len(s) THEN <<>> ELSE Match(MatchAt(alternatives, s, p))

IndicatorConfidence(pattern_type) ==
    IF pattern_type = "explicit_sizes" THEN D_0_8 ELSE D_0_6

SizeIndicators(node_name) ==
    LET Indicators(pattern_type, matches) ==
            [k \in 1..Len(matches) |->
                [ type       |-> pattern_type,
                  value      |-> matches[k],
                  confidence |-> IndicatorConfidence(pattern_type) ]]
    IN  Flatten([t \in 1..Len(size_patterns) |->
            Indicators(size_patterns[t].type,
                       FindAll(size_patterns[t].alternatives, node_name, 0))])

\* A JSON value of the scale key: a list of numbers (in hundredths) or not
IsListOf3(scale) == scale.type = "list" /\ Len(scale.items) = 3

SeqMax(q) == SetMax(Range(q))
SeqMin(q) == CHOOSE x \in Range(q) : \A y \in Range(q) : x <= y
UniformBelow == 10      \* scale_variance < 0.1, in hundredths

\* geometric_validation that counts a scale of any shape
GeometricValidationAnyScale(node) ==
    IF Has(node, "scale") THEN [has_scale |-> TRUE] ELSE EmptyDict

GeometricValidation(node) ==
    LET Validation(scale_variance) ==
            [ has_scale      |-> TRUE,
              uniform_scale  |-> scale_variance < UniformBelow,
              scale_factor   |-> Rat(SumSeq(node.scale.items), 3),   \* in hundredths
              scale_variance |-> scale_variance ]
    IN  IF Has(node, "scale") /\ IsListOf3(node.scale)
        THEN Validation(SeqMax(node.scale.items) - SeqMin(node.scale.items))
        ELSE EmptyDict

\* size_analysis['confidence'] with the scale counted against the node
SizeConfidencePenalized(size_indicators, geometric_validation) ==
    IF size_indicators = <<>> THEN D_0_0
    ELSE FMin(D_1_0,
              FSub(FMaxSeq([k \in 1..Len(size_indicators) |-> size_indicators[k].confidence]),
                   IF DictGet(geometric_validation, "has_scale", FALSE)
                   THEN D_0_2 ELSE D_0_0))

\* size_analysis['confidence']
SizeConfidence(size_indicators, geometric_validation) ==
    LET Boosted(max_indicator_confidence, geometric_boost) ==
            FMin(D_1_0, FAdd(max_indicator_confidence, geometric_boost))
    IN  IF size_indicators = <<>> THEN D_0_0
        ELSE Boosted(FMaxSeq([k \in 1..Len(size_indicators) |->
                                 size_indicators[k].confidence]),
                     IF DictGet(geometric_validation, "has_scale", FALSE)
                     THEN D_0_2 ELSE D_0_0)

\* The threshold of `if size_analysis['confidence'] > 0.5`
SizeRetained(conf) == FGt(conf, D_0_5)

\* node.get('name', '').lower()
NodeName(node) == Lower(DictGet(node, "name", <<>>))

\* The entry of one node: <<>> when it is skipped or dropped
SizeAnalysis(i, node) ==
    LET Entry(node_name, size_indicators, geometric_validation, confidence) ==
            IF node_name = <<>> \/ ~SizeRetained(confidence) THEN <<>>
            ELSE << [ node_name  |-> node.name,
                      node_index |-> i - 1,
                      size_indicators |-> size_indicators,
                      confidence |-> confidence,
                      geometric_validation |-> geometric_validation ] >>
        Analyzed(node_name, size_indicators, geometric_validation) ==
            Entry(node_name, size_indicators, geometric_validation,
                  SizeConfidence(size_indicators, geometric_validation))
    IN  Analyzed(NodeName(node), SizeIndicators(NodeName(node)),
                 GeometricValidation(node))

AnalyzeSizeVariationsValidated(data) ==
    LET Each(nodes) == Flatten([i \in 1..Len(nodes) |-> SizeAnalysis(i, nodes[i])])
    IN  Each(DictGet(data, "nodes", <<>>))

(***************************************************************************)
(* _evaluate_closure_accessibility and _analyze_accessibility_features     *)
(***************************************************************************)
D_0_4 == Dbl(8, 8)

accessibility_scores ==
    << [closure_type |-> <<"v","e","l","c","r","o">>, score |-> D_0_9],
       [closure_type |-> <<"m","a","g","n","e","t","i","c">>, score |-> D_0_9],
       [closure_type |-> <<"s","n","a","p">>, score |-> D_0_7],
       [closure_type |-> <<"z","i","p","p","e","r">>, score |-> D_0_6],
       [closure_type |-> <<"c","r","e","m","a","l","l","e","r","a">>, score |-> D_0_6],
       [closure_type |-> <<"b","u","t","t","o","n">>, score |-> D_0_4],
       [closure_type |-> <<"b","o","t","ó","n">>, score |-> D_0_4],
       [closure_type |-> <<"t","i","e">>, score |-> D_0_3],
       [closure_type |-> <<"t","o","g","g","l","e">>, score |-> D_0_5] >>

\* accessibility_scores.get(closure_type, 0.0)
EvaluateClosureAccessibility(closure_type) ==
    LET Score(rows) == IF rows = <<>> THEN D_0_0 ELSE rows[1].score
    IN  Score(SelectSeq(accessibility_scores,
                        LAMBDA r : r.closure_type = closure_type))

\* The feature of one closures element, kept whatever its score
ClosureFeatureKeepingZero(element, closure_element) ==
    LET Feature(accessibility_score) ==
            << [ type       |-> "closure_accessibility",
                 element    |-> closure_element.element,
                 mesh_name  |-> element.mesh_name,
                 accessibility_score |-> accessibility_score,
                 confidence |-> closure_element.confidence,
                 validated  |-> closure_element.validated ] >>
    IN  Feature(EvaluateClosureAccessibility(closure_element.element))

\* The features of one closures element, none when its score is 0
ClosureFeature(element, closure_element) ==
    LET Feature(accessibility_score) ==
            IF FGt(accessibility_score, D_0_0)
            THEN << [ type       |-> "closure_accessibility",
                      element    |-> closure_element.element,
                      mesh_name  |-> element.mesh_name,
                      accessibility_score |-> accessibility_score,
                      confidence |-> closure_element.confidence,
                      validated  |-> closure_element.validated ] >>
            ELSE <<>>
    IN  Feature(EvaluateClosureAccessibility(closure_element.element))

AnalyzeAccessibilityFeatures(elements) ==
    LET OfCategory(element, category_info) ==
            IF category_info.category = "closures"
            THEN Flatten([k \in 1..Len(category_info.elements) |->
                            ClosureFeature(element, category_info.elements[k])])
            ELSE <<>>
        OfElement(element) ==
            Flatten([c \in 1..Len(element.detected_elements) |->
                        OfCategory(element, element.detected_elements[c])])
    IN  Flatten([m \in 1..Len(elements) |-> OfElement(elements[m])])

(***************************************************************************)
(* _calculate_overall_confidence, in the exact arithmetic of Average.      *)
(***************************************************************************)
WeightGarment       == Rat(4, 10)
WeightMaterials     == Rat(3, 10)
WeightSizes         == Rat(2, 10)
WeightAccessibility == Rat(1, 10)

\* An entry of confidence_factors that ignores its weight
ConfidenceFactorUnweighted(confidences, weight) ==
    IF confidences = <<>> THEN <<>> ELSE << Average(confidences) >>

\* One entry of confidence_factors: nothing when the collection is empty
ConfidenceFactor(confidences, weight) ==
    IF confidences = <<>> THEN <<>> ELSE << RatMul(Average(confidences), weight) >>

\* The weighted sum divided by the weights of the subsystems that detected
\* something
CalculateOverallConfidenceRenormalized(elements, fabric, sizes, features) ==
    LET Part(confidences, weight) ==
            IF confidences = <<>> THEN [sum |-> RatZero, weight |-> RatZero]
            ELSE [sum |-> RatMul(Average(confidences), weight), weight |-> weight]
        Ratio(total, weight) ==
            IF weight = RatZero THEN RatZero
            ELSE Rat(total.num * weight.den, total.den * weight.num)
        Normalized(parts) ==
            Ratio(RatSum([k \in 1..4 |-> parts[k].sum]),
                  RatSum([k \in 1..4 |-> parts[k].weight]))
        Parts(materials) ==
            Normalized(
                << Part([k \in 1..Len(elements) |-> elements[k].confidence_score],
                        WeightGarment),
                   Part([k \in 1..Len(materials) |-> materials[k].confidence],
                        WeightMaterials),
                   Part([k \in 1..Len(sizes) |-> sizes[k].confidence], WeightSizes),
                   Part([k \in 1..Len(features) |-> features[k].confidence],
                        WeightAccessibility) >>)
    IN  Parts(Values(DictGet(fabric, "materials", EmptyDict)))

CalculateOverallConfidence(elements, fabric, sizes, features) ==
    LET Factors(materials) ==
            ConfidenceFactor([k \in 1..Len(elements) |->
                                 elements[k].confidence_score], WeightGarment)
            \o ConfidenceFactor([k \in 1..Len(materials) |-> materials[k].confidence],
                                WeightMaterials)
            \o ConfidenceFactor([k \in 1..Len(sizes) |->
                                    sizes[k].confidence], WeightSizes)
            \o ConfidenceFactor([k \in 1..Len(features) |->
                                    features[k].confidence],
                                WeightAccessibility)
    IN  RatSum(Factors(Values(DictGet(fabric, "materials", EmptyDict))))

(***************************************************************************)
(* _collect_validation_sources.  list(sources) orders a set of strings by  *)
(* their hashes; the model keeps the set.                                  *)
(***************************************************************************)
CollectValidationSources(fabric, elements) ==
    LET Sources(materials, validated) ==
            UNION { Range(materials[name].validation_sources) :
                    name \in DOMAIN materials }
            \cup (IF validated THEN {"contextual_validation"} ELSE {})
    IN  Sources(DictGet(fabric, "materials", EmptyDict),
                \E m \in 1..Len(elements) :
                  \E c \in 1..Len(elements[m].detected_elements) :
                    \E k \in 1..Len(elements[m].detected_elements[c].elements) :
                      elements[m].detected_elements[c].elements[k].validated)

(***************************************************************************)
(* _detect_false_positives                                                 *)
(***************************************************************************)
FashionIndicators == << <<"c","l","o">>, <<"f","a","s","h","i","o","n">>, <<"t","e","x","t","i","l","e">>, <<"g","a","r","m","e","n","t">> >>

\* data.get('asset', {}).get('generator', '').lower()
Generator(data) ==
    Lower(DictGet(DictGet(data, "asset", EmptyDict), "generator", <<>>))

\* The detections compared with the number of meshes itself
TooManyElementsThanMeshes(total_elements, mesh_count) == total_elements > mesh_count

\* total_elements > len(meshes) * 0.8; the product is exact for every count
\* of meshes that 0.8 turns into an integer, so integers decide it
TooManyElements(total_elements, mesh_count) == 10 * total_elements > 8 * mesh_count

\* The comparison of the material counts with equality included
MaterialCountInconsistentInclusive(materials_count, gltf_materials_count) ==
    materials_count >= gltf_materials_count

MaterialCountInconsistent(materials_count, gltf_materials_count) ==
    materials_count > gltf_materials_count

\* The detectors without the one on the generator string
DetectFalsePositivesDensityOnly(data, elements, fabric) ==
    LET Flags(total_elements, materials_count) ==
            (IF TooManyElements(total_elements, Len(DictGet(data, "meshes", <<>>)))
             THEN <<"too_many_garment_elements_detected">> ELSE <<>>)
            \o (IF MaterialCountInconsistent(materials_count,
                                             Len(DictGet(data, "materials", <<>>)))
                THEN <<"material_count_inconsistency">> ELSE <<>>)
    IN  Flags(SumSeq([m \in 1..Len(elements) |-> Len(elements[m].detected_elements)]),
              Cardinality(DOMAIN DictGet(fabric, "materials", EmptyDict)))

DetectFalsePositives(data, elements, fabric) ==
    LET Flags(generator, total_elements, materials_count, gltf_materials_count) ==
            (IF ~\E k \in 1..Len(FashionIndicators) :
                     Contains(generator, FashionIndicators[k])
             THEN <<"generator_not_fashion_specific">> ELSE <<>>)
            \o (IF TooManyElements(total_elements, Len(DictGet(data, "meshes", <<>>)))
                THEN <<"too_many_garment_elements_detected">> ELSE <<>>)
            \o (IF MaterialCountInconsistent(materials_count, gltf_materials_count)
                THEN <<"material_count_inconsistency">> ELSE <<>>)
    IN  Flags(Generator(data),
              SumSeq([m \in 1..Len(elements) |-> Len(elements[m].detected_elements)]),
              Cardinality(DOMAIN DictGet(fabric, "materials", EmptyDict)),
              Len(DictGet(data, "materials", <<>>)))

(***************************************************************************)
(* analyze_gltf_file as a state machine: one action per statement of the   *)
(* method.  file is the content of the file at file_path; the analyzer is  *)
(* called on it MaxRuns times.                                             *)
(***************************************************************************)

\* A file that json.load cannot parse
InvalidJson == [valid |-> FALSE]
JsonFile(scene) == [valid |-> TRUE, content |-> scene]

\* A call starts: json.load parses the file
Load ==
    /\ pc \in {"idle", "done", "raised"}
    /\ runs < MaxRuns
    /\ file.valid
    /\ runs' = runs + 1
    /\ previous' = result
    /\ gltf_data' = file.content
    /\ result' = NoValue
    /\ raised' = None
    /\ garment_elements' = NoValue
    /\ fabric_properties' = NoValue
    /\ size_variations' = NoValue
    /\ accessibility_features' = NoValue
    /\ confidence_score' = NoValue
    /\ validation_sources' = NoValue
    /\ false_positive_flags' = NoValue
    /\ hit_log' = {}
    /\ pc' = "garment_elements"
    /\ UNCHANGED file
    /\ UNCHANGED app

\* json.JSONDecodeError becomes ValueError
LoadFails ==
    /\ pc \in {"idle", "done", "raised"}
    /\ runs < MaxRuns
    /\ ~file.valid
    /\ runs' = runs + 1
    /\ previous' = result
    /\ result' = NoValue
    /\ raised' = "ValueError"
    /\ pc' = "raised"
    /\ UNCHANGED << file, locals, hit_log >>
    /\ UNCHANGED app

AnalyzeGarmentElements ==
    /\ pc = "garment_elements"
    /\ garment_elements' = AnalyzeGarmentElementsContextual(gltf_data)
    /\ hit_log' = HitLog(gltf_data)
    /\ pc' = "fabric_properties"
    /\ UNCHANGED << file, runs, gltf_data, fabric_properties, size_variations,
                    accessibility_features, confidence_score, validation_sources,
                    false_positive_flags, result, raised, previous >>
    /\ UNCHANGED app

AnalyzeFabricProperties ==
    /\ pc = "fabric_properties"
    /\ LET Assign(fabric) ==
               IF fabric.raised
               THEN /\ raised' = "IndexError"
                    /\ pc' = "raised"
                    /\ UNCHANGED fabric_properties
               ELSE /\ fabric_properties' =
                           [ materials |-> fabric.materials,
                             confidence_distribution |-> fabric.confidence_distribution,
                             validation_methods |-> fabric.validation_methods ]
                    /\ pc' = "size_variations"
                    /\ UNCHANGED raised
       IN  Assign(AnalyzeFabricPropertiesAdvanced(gltf_data))
    /\ UNCHANGED << file, runs, gltf_data, garment_elements, size_variations,
                    accessibility_features, confidence_score, validation_sources,
                    false_positive_flags, hit_log, result, previous >>
    /\ UNCHANGED app

AnalyzeSizeVariations ==
    /\ pc = "size_variations"
    /\ size_variations' = AnalyzeSizeVariationsValidated(gltf_data)
    /\ pc' = "accessibility_features"
    /\ UNCHANGED << file, runs, gltf_data, garment_elements, fabric_properties,
                    accessibility_features, confidence_score, validation_sources,
                    false_positive_flags, hit_log, result, raised, previous >>
    /\ UNCHANGED app

AnalyzeAccessibility ==
    /\ pc = "accessibility_features"
    /\ accessibility_features' = AnalyzeAccessibilityFeatures(garment_elements)
    /\ pc' = "confidence_score"
    /\ UNCHANGED << file, runs, gltf_data, garment_elements, fabric_properties,
                    size_variations, confidence_score, validation_sources,
                    false_positive_flags, hit_log, result, raised, previous >>
    /\ UNCHANGED app

CalculateConfidence ==
    /\ pc = "confidence_score"
    /\ confidence_score' =
           CalculateOverallConfidence(garment_elements, fabric_properties,
                                      size_variations, accessibility_features)
    /\ pc' = "validation_sources"
    /\ UNCHANGED << file, runs, gltf_data, garment_elements, fabric_properties,
                    size_variations, accessibility_features, validation_sources,
                    false_positive_flags, hit_log, result, raised, previous >>
    /\ UNCHANGED app

CollectSources ==
    /\ pc = "validation_sources"
    /\ validation_sources' = CollectValidationSources(fabric_properties, garment_elements)
    /\ pc' = "false_positive_flags"
    /\ UNCHANGED << file, runs, gltf_data, garment_elements, fabric_properties,
                    size_variations, accessibility_features, confidence_score,
                    false_positive_flags, hit_log, result, raised, previous >>
    /\ UNCHANGED app

DetectFlags ==
    /\ pc = "false_positive_flags"
    /\ false_positive_flags' =
           DetectFalsePositives(gltf_data, garment_elements, fabric_properties)
    /\ pc' = "return"
    /\ UNCHANGED << file, runs, gltf_data, garment_elements, fabric_properties,
                    size_variations, accessibility_features, confidence_score,
                    validation_sources, hit_log, result, raised, previous >>
    /\ UNCHANGED app

\* return GLTFAnalysisResult(...)
Return ==
    /\ pc = "return"
    /\ result' = [ gltf_version     |-> DictGet(DictGet(gltf_data, "asset", EmptyDict),
                                                "version", <<"U","n","k","n","o","w","n">>),
                   generator        |-> DictGet(DictGet(gltf_data, "asset", EmptyDict),
                                                "generator", <<"U","n","k","n","o","w","n">>),
                   confidence_score |-> confidence_score,
                   garment_elements |-> garment_elements,
                   fabric_properties |-> fabric_properties,
                   size_variations  |-> size_variations,
                   accessibility_features |-> accessibility_features,
                   validation_sources |-> validation_sources,
                   false_positive_flags |-> false_positive_flags ]
    /\ pc' = "done"
    /\ UNCHANGED << file, runs, locals, hit_log, raised, previous >>
    /\ UNCHANGED app

Next ==
    \/ Load
    \/ LoadFails
    \/ AnalyzeGarmentElements
    \/ AnalyzeFabricProperties
    \/ AnalyzeSizeVariations
    \/ AnalyzeAccessibility
    \/ CalculateConfidence
    \/ CollectSources
    \/ DetectFlags
    \/ Return

(***************************************************************************)
(* The files analyzed.  A scene is the object json.load returns; each      *)
(* specification below draws the file from its own family of scenes and    *)
(* runs the same analyzer on it.                                           *)
(***************************************************************************)
SeqsUpTo(S, n) == UNION { [1..k -> S] : k \in 0..n }
SeqsFromTo(S, m, n) == UNION { [1..k -> S] : k \in m..n }

RECURSIVE Join(_)
Join(words) ==
    IF Len(words) = 0 THEN <<>>
    ELSE IF Len(words) = 1 THEN words[1]
    ELSE words[1] \o <<"_">> \o Join(Tail(words))

Scene(meshes, materials, textures, images, nodes) ==
    [ meshes |-> meshes, materials |-> materials, textures |-> textures,
      images |-> images, nodes |-> nodes ]

WithGenerator(scene, generator) == [asset |-> [generator |-> generator]] @@ scene

Named(name) == [name |-> name]

\* --- meshes -------------------------------------------------------------
\* A closure keyword with the first c context words and the first e
\* exclusion words of its category: c context and e exclusion matches
ClosureName(keyword, c, e) ==
    Join(<<keyword>> \o SubSeq(garment_context_patterns.closures.context, 1, c)
                     \o SubSeq(garment_context_patterns.closures.exclusions, 1, e))

Zipper == garment_context_patterns.closures.primary[1]
ContextCounts   == 0..Len(garment_context_patterns.closures.context)
ExclusionCounts == 0..Len(garment_context_patterns.closures.exclusions)

\* Up to MaxMeshes meshes with the same context words and one more
\* exclusion word each
ChainMeshes ==
    { [i \in 1..k |-> Named(ClosureName(Zipper, c, e + i - 1))] :
        <<c, e, k>> \in { t \in ContextCounts \X ExclusionCounts \X (1..MaxMeshes) :
                           t[2] + t[3] - 1 \in ExclusionCounts } }

SpecialMeshNames ==
    { <<"f","r","o","n","t","_","z","i","p","p","e","r","_","c","l","o","s","u","r","e">>,
      <<"z","i","p","p","e","r","_","t","e","x","t","u","r","e","_","p","a","t","t","e","r","n">>,
      <<"V","e","l","c","r","o","_","S","t","r","a","p">>,
      <<"s","n","a","p","_","b","u","t","t","o","n","_","f","r","o","n","t">>,
      <<"f","a","s","t","e","n","e","r">>,
      <<"l","e","f","t","_","s","l","e","e","v","e","_","m","a","i","n">>,
      <<"s","e","a","m","_","c","o","n","s","t","r","u","c","t","i","o","n">>,
      <<>>,
      <<"p","l","a","i","n","_","m","e","s","h">> }

SpecialMeshes == { Named(n) : n \in SpecialMeshNames } \cup { EmptyDict }

MixMeshes == { Named(n) : n \in
    { <<"f","r","o","n","t","_","z","i","p","p","e","r","_","c","l","o","s","u","r","e">>,
      <<"z","i","p","p","e","r","_","l","o","g","o","_","s","i","d","e">>,
      <<"l","e","f","t","_","s","l","e","e","v","e","_","m","a","i","n">> } }

\* --- materials ----------------------------------------------------------
MaterialNames ==
    { <<"c","o","t","t","o","n","_","s","h","i","r","t">>,
      <<"s","i","l","k">>,
      <<"s","i","l","k","_","c","o","t","t","o","n">>,
      <<"w","o","o","l","_","b","l","e","n","d">>,
      <<"S","t","e","e","l">>,
      <<"m","a","t","e","r","i","a","l","_","1">> }

MetallicValues  == { D_0_0, D_0_2, D_0_5, D_0_7, D_0_9 }
RoughnessValues == { D_0_2, D_0_3, D_0_5, D_0_8, D_0_9 }

CloExtension == [ CLO_material_properties |->
                    ("Stretch-Warp" :> 250000) @@ ("Stretch-Weft" :> 80000)
                    @@ ("Weight" :> 180) ]
OtherExtension == [ KHR_materials_unlit |-> EmptyDict ]

\* The texture and image tables of the scenes whose materials hold slots
SceneImages ==
    << [ name |-> <<"C","o","t","t","o","n","_","D","i","f","f","u","s","e",".","p","n","g">> ],
       [ uri  |-> <<"t","e","x","t","u","r","e","s","/","s","i","l","k","_","n","o","r","m","a","l",".","p","n","g">> ],
       [ name |-> <<>>, uri |-> <<"w","o","o","l",".","j","p","g">> ],
       [ name |-> <<"p","l","a","i","n",".","p","n","g">> ] >>
SceneTextures ==
    << [source |-> 0], [source |-> 1], [source |-> 2], [source |-> 3],
       [source |-> 4], [source |-> -4], [source |-> -5], EmptyDict >>

SlotIndexes == { -9, -8, -1, 0, 1, 2, 3, 4, 5, 6, 7, 8 }
Slots == { [index |-> i] : i \in SlotIndexes } \cup { EmptyDict }

PbrBlocks ==
    { [roughnessFactor |-> r, metallicFactor |-> m] :
        r \in RoughnessValues, m \in MetallicValues }

\* Materials classified from PBR values and the name alone
PbrMaterials ==
    { [name |-> n, pbrMetallicRoughness |-> b] : n \in MaterialNames, b \in PbrBlocks }
    \cup { [pbrMetallicRoughness |-> b] : b \in PbrBlocks }

\* Materials with one texture slot, on a PBR block that classifies nothing
\* (metallic 0.5), classifies low (defaults) or is missing
SlotMaterials ==
    { [name |-> <<"c","o","t","t","o","n","_","s","h","i","r","t">>, pbrMetallicRoughness |->
          [metallicFactor |-> D_0_5, baseColorTexture |-> sl]] : sl \in Slots }
    \cup { [pbrMetallicRoughness |-> [metallicRoughnessTexture |-> sl]] : sl \in Slots }
    \cup { [name |-> <<"c","o","t","t","o","n","_","s","h","i","r","t">>, normalTexture |-> sl] : sl \in Slots }

\* Materials with an extensions block
ExtensionMaterials ==
    { [extensions |-> ext] @@ m :
        ext \in { CloExtension, OtherExtension, EmptyDict,
                  [CLO_material_properties |-> EmptyDict] },
        m \in { EmptyDict,
                [name |-> <<"c","o","t","t","o","n","_","s","h","i","r","t">>],
                [pbrMetallicRoughness |-> EmptyDict],
                [pbrMetallicRoughness |-> [metallicFactor |-> D_0_9]],
                [pbrMetallicRoughness |-> [metallicFactor |-> D_0_5]],
                [pbrMetallicRoughness |-> [roughnessFactor |-> D_0_9]],
                [pbrMetallicRoughness |-> [baseColorTexture |-> [index |-> 0]]],
                [normalTexture |-> [index |-> 1]],
                [normalTexture |-> [index |-> 7]] } }

\* Materials that are analyzed together: equal names, a name that equals
\* another material's default name, none retained
MixMaterials ==
    { [name |-> <<"c","o","t","t","o","n","_","s","h","i","r","t">>, extensions |-> CloExtension],
      [name |-> <<"c","o","t","t","o","n","_","s","h","i","r","t">>, pbrMetallicRoughness |-> [roughnessFactor |-> D_0_9]],
      [name |-> <<"m","a","t","e","r","i","a","l","_","1">>, pbrMetallicRoughness |-> [metallicFactor |-> D_0_9]],
      [pbrMetallicRoughness |-> [baseColorTexture |-> [index |-> 0]]],
      [name |-> <<"c","o","t","t","o","n","_","s","h","i","r","t">>, pbrMetallicRoughness |-> [metallicFactor |-> D_0_5]] }

\* --- nodes --------------------------------------------------------------
NodeNames ==
    { <<"s","i","z","e","_","m">>,
      <<"s","i","z","e"," ","m">>,
      <<"M">>,
      <<"s","i","z","e","_","1","2">>,
      <<"s","h","i","r","t","_","s","i","z","e","_","1","2">>,
      <<"s","c","a","l","e","_","1",".","5">>,
      <<"s","c","a","l","e","_","1",".">>,
      <<"v","a","r","i","a","n","t"," ","2">>,
      <<"x","l","-","s","h","i","r","t">>,
      <<"1","2","_","s","i","z","e">>,
      <<"s","m","a","l","l"," ","m","e","d","i","u","m">>,
      <<"s","i","z","e","_","1","2"," ","x","l">>,
      <<"S","i","z","e"," ","L">>,
      <<"b","o","d","y">>,
      <<>> }

ListOf(items) == [type |-> "list", items |-> items]
Scales == { ListOf(<<100, 100, 100>>), ListOf(<<100, 150, 100>>),
            ListOf(<<100, 100>>), [type |-> "number", value |-> 100] }

SceneNodes ==
    { Named(n) : n \in NodeNames }
    \cup { [name |-> n, scale |-> sc] : n \in NodeNames, sc \in Scales }
    \cup { EmptyDict } \cup { [scale |-> sc] : sc \in Scales }

MixNodes == { [name |-> <<"s","i","z","e"," ","m">>, scale |-> ListOf(<<100, 100, 100>>)],
              Named(<<"s","i","z","e","_","1","2">>), Named(<<"b","o","d","y">>) }

\* --- generators ---------------------------------------------------------
Generators == { <<"C","L","O","3","D"," ","F","a","s","h","i","o","n"," ","S","t","u","d","i","o">>, <<"B","l","e","n","d","e","r"," ","3",".","6">> }

(***************************************************************************)
(* The specifications: the same analyzer on four families of files.        *)
(***************************************************************************)
EmptyScene == Scene(<<>>, <<>>, <<>>, <<>>, <<>>)

\* Files of every family: no JSON, no top-level collection, empty
\* collections, a texture index that raises
CommonFiles ==
    { InvalidJson, JsonFile(EmptyDict), JsonFile(EmptyScene) }
    \cup { JsonFile(WithGenerator(sc, g)) : sc \in {EmptyDict, EmptyScene}, g \in Generators }
    \cup { JsonFile(Scene(<<>>, <<[normalTexture |-> [index |-> -1]]>>, <<>>, <<>>, <<>>)) }

ElementFiles ==
    { JsonFile(Scene(m, <<>>, <<>>, <<>>, <<>>)) :
        m \in ChainMeshes \cup SeqsUpTo(SpecialMeshes, MaxMeshes) }

MaterialFiles ==
    { JsonFile(Scene(<<>>, <<m>>, SceneTextures, SceneImages, <<>>)) :
        m \in PbrMaterials \cup SlotMaterials \cup ExtensionMaterials }
    \cup { JsonFile(Scene(<<>>, <<m>>, <<>>, <<>>, <<>>)) : m \in SlotMaterials }
    \cup { JsonFile(Scene(<<>>, ms, SceneTextures, SceneImages, <<>>)) :
             ms \in SeqsFromTo(MixMaterials, 2, MaxMaterials) }

SizeFiles ==
    { JsonFile(Scene(<<>>, <<>>, <<>>, <<>>, <<n>>)) : n \in SceneNodes }
    \cup { JsonFile(Scene(<<>>, <<>>, <<>>, <<>>, ns)) :
             ns \in SeqsFromTo(MixNodes, 2, MaxNodes) }

MixedMaterials ==
    { [name |-> <<"c","o","t","t","o","n","_","s","h","i","r","t">>, extensions |-> CloExtension],
      [name |-> <<"m","a","t","e","r","i","a","l","_","1">>, pbrMetallicRoughness |-> [metallicFactor |-> D_0_9]],
      [pbrMetallicRoughness |-> [baseColorTexture |-> [index |-> 0]]] }

MixedNodes ==
    { [name |-> <<"s","i","z","e"," ","m">>, scale |-> ListOf(<<100, 100, 100>>)],
      Named(<<"b","o","d","y">>) }

MixedFiles ==
    { JsonFile(Scene(ms, mats, SceneTextures, SceneImages, ns)) :
        ms \in SeqsUpTo(MixMeshes, MaxMeshes),
        mats \in SeqsUpTo(MixedMaterials, MaxMaterials),
        ns \in SeqsUpTo(MixedNodes, MaxNodes) }
    \cup { JsonFile(WithGenerator(Scene(ms, <<>>, <<>>, <<>>, <<>>), g)) :
             ms \in SeqsUpTo(MixMeshes, MaxMeshes), g \in Generators }

\* The analyzer called on its own: no dashboard session, no chatbot
NoApp ==
    /\ session_state = <<>>
    /\ uploaded_file = <<>>
    /\ page = <<>>
    /\ clients = <<>>
    /\ chat_sessions = <<>>
    /\ active_sessions = <<>>
    /\ clock = 0
    /\ in_flight = <<>>
    /\ chat_returns = <<>>

InitWith(files) ==
    /\ NoApp
    /\ file \in files
    /\ pc = "idle"
    /\ runs = 0
    /\ gltf_data = NoValue
    /\ garment_elements = NoValue
    /\ fabric_properties = NoValue
    /\ size_variations = NoValue
    /\ accessibility_features = NoValue
    /\ confidence_score = NoValue
    /\ validation_sources = NoValue
    /\ false_positive_flags = NoValue
    /\ hit_log = {}
    /\ result = NoValue
    /\ raised = None
    /\ previous = NoValue

Init          == InitWith(CommonFiles \cup MixedFiles)
InitElements  == InitWith(CommonFiles \cup ElementFiles)
InitMaterials == InitWith(CommonFiles \cup MaterialFiles)
InitSizes     == InitWith(CommonFiles \cup SizeFiles)

Spec          == Init /\ [][Next]_vars
SpecElements  == InitElements /\ [][Next]_vars
SpecMaterials == InitMaterials /\ [][Next]_vars
SpecSizes     == InitSizes /\ [][Next]_vars

(***************************************************************************)
(* Properties of the garment element detector                              *)
(***************************************************************************)
\* 0.8 + 0.1 x nctx - 0.3 x nexc clamped to [0, 1], in twentieths
IdealConfidence(nctx, nexc) == Max(0, Min(20, 16 + 2 * nctx - 6 * nexc))

\* The hit is an element of the report
InReport(h) ==
    \E m \in 1..Len(garment_elements) :
        /\ garment_elements[m].mesh_index = h.mesh_index
        /\ \E d \in 1..Len(garment_elements[m].detected_elements) :
              /\ garment_elements[m].detected_elements[d].category = h.category
              /\ \E k \in 1..Len(garment_elements[m].detected_elements[d].elements) :
                    garment_elements[m].detected_elements[d].elements[k].element
                        = h.element

\* C1: at every primary-keyword hit the confidence is, up to the rounding of
\* a double, the clamp to [0,1] of 0.8 + 0.1 x context - 0.3 x exclusions,
\* and the element is in the report iff that value is greater than 0.5
C1_KeptIffAboveHalf ==
    \A h \in hit_log :
        /\ h.confidence.n = IdealConfidence(h.nctx, h.nexc)
        /\ InReport(h) <=> IdealConfidence(h.nctx, h.nexc) > 10

\* C1: a hit whose value is exactly 0.5 is in the report
C1_HalfIsKept ==
    \E h \in hit_log : IdealConfidence(h.nctx, h.nexc) = 10 /\ InReport(h)

\* The second hit has the context matches of the first and more exclusions
ExclusionsGrow(h1, h2) ==
    /\ h1.category = h2.category
    /\ h1.context_matches = h2.context_matches
    /\ Range(h1.exclusion_flags) \subseteq Range(h2.exclusion_flags)
    /\ Range(h1.exclusion_flags) # Range(h2.exclusion_flags)

InUnitInterval(x) == FLe(D_0_0, x) /\ FLe(x, D_1_0)

\* C2, as stated: every confidence is within [0,1] and, the context matches
\* being the same, a larger set of exclusion matches gives a strictly smaller
\* confidence
C2_StrictlyDecreasing ==
    /\ \A h \in hit_log : InUnitInterval(h.confidence)
    /\ \A h1, h2 \in hit_log :
          ExclusionsGrow(h1, h2) => FLt(h2.confidence, h1.confidence)

\* C2, amended: every confidence is within [0,1] and, the context matches
\* being the same, a larger set of exclusion matches never gives a larger
\* confidence, and gives a strictly smaller one unless both are clamped to
\* the same end of the interval
C2_DecreasingUnlessClamped ==
    /\ \A h \in hit_log : InUnitInterval(h.confidence)
    /\ \A h1, h2 \in hit_log :
          ExclusionsGrow(h1, h2) =>
              \/ FLt(h2.confidence, h1.confidence)
              \/ h1.confidence = D_1_0 /\ h2.confidence = D_1_0
              \/ h1.confidence = D_0_0 /\ h2.confidence = D_0_0

\* C2: two hits with the same context, one more exclusion, both clamped to 1
C2_BothClampedToOne ==
    \E h1, h2 \in hit_log :
        /\ ExclusionsGrow(h1, h2)
        /\ h1.confidence = D_1_0
        /\ h2.confidence = D_1_0

(***************************************************************************)
(* Properties of the material analysis                                     *)
(***************************************************************************)
HasSource(material_analysis, source) ==
    source \in Range(material_analysis.validation_sources)

\* C3: a material of the report validated by the CLO3D extension has a
\* confidence of at least 0.95, whatever its PBR block and texture slots
C3_ExtensionKeepsConfidence ==
    pc = "done" =>
        \A ma \in Range(Values(result.fabric_properties.materials)) :
            HasSource(ma, "CLO3D_extension") => FLe(D_0_95, ma.confidence)

\* C3: a reported material with the extension and a PBR block classified
\* below 0.95
C3_ExtensionWithPbr ==
    /\ pc = "done"
    /\ \E ma \in Range(Values(result.fabric_properties.materials)) :
          /\ HasSource(ma, "CLO3D_extension")
          /\ HasSource(ma, "PBR_analysis")
          /\ FLt(ma.properties.pbr_confidence, D_0_95)
          /\ ma.confidence = D_0_95

(***************************************************************************)
(* Properties of the aggregator                                            *)
(***************************************************************************)
\* The mean of a list of confidences, 0 for the empty list
MeanOrZero(confidences) ==
    IF confidences = <<>> THEN RatZero ELSE Average(confidences)

ReportMaterials == Values(result.fabric_properties.materials)

ElementMean  == MeanOrZero([k \in 1..Len(result.garment_elements) |->
                               result.garment_elements[k].confidence_score])
MaterialMean == MeanOrZero([k \in 1..Len(ReportMaterials) |->
                               ReportMaterials[k].confidence])
SizeMean     == MeanOrZero([k \in 1..Len(result.size_variations) |->
                               result.size_variations[k].confidence])
FeatureMean  == MeanOrZero([k \in 1..Len(result.accessibility_features) |->
                               result.accessibility_features[k].confidence])

\* C4: the overall confidence is 0.4 x mean mesh confidence + 0.3 x mean
\* material confidence + 0.2 x mean size confidence + 0.1 x mean feature
\* confidence, an empty subsystem counting 0 and the weights staying as
\* they are
C4_WeightedSum ==
    pc = "done" =>
        result.confidence_score =
            RatAdd(RatAdd(RatMul(Rat(4, 10), ElementMean),
                          RatMul(Rat(3, 10), MaterialMean)),
                   RatAdd(RatMul(Rat(2, 10), SizeMean),
                          RatMul(Rat(1, 10), FeatureMean)))

\* C4: only meshes detected, of confidence 1.0: the overall confidence is 0.4
C4_OnlyMeshes ==
    /\ pc = "done"
    /\ result.garment_elements # <<>>
    /\ ElementMean = Rat(1, 1)
    /\ ReportMaterials = <<>>
    /\ result.size_variations = <<>>
    /\ result.accessibility_features = <<>>
    /\ result.confidence_score = Rat(4, 10)

\* C5: the overall confidence of a report is at least 0 and at most 1
C5_WithinZeroOne ==
    pc = "done" =>
        /\ RatLe(RatZero, result.confidence_score)
        /\ RatLe(result.confidence_score, Rat(1, 1))

\* C5: all four subsystems detect something and the overall confidence is
\* above 0.8
C5_AllSubsystems ==
    /\ pc = "done"
    /\ result.garment_elements # <<>>
    /\ ReportMaterials # <<>>
    /\ result.size_variations # <<>>
    /\ result.accessibility_features # <<>>
    /\ RatLe(Rat(8, 10), result.confidence_score)

(***************************************************************************)
(* Properties of analyze_gltf_file                                         *)
(***************************************************************************)
\* No meshes, no materials, no nodes
IsEmptyScene(data) ==
    /\ DictGet(data, "meshes", <<>>) = <<>>
    /\ DictGet(data, "materials", <<>>) = <<>>
    /\ DictGet(data, "nodes", <<>>) = <<>>

EmptySceneAnalyzed == file.valid /\ IsEmptyScene(file.content)

\* Everything of the report of an empty scene but its flags
EmptyReport ==
    /\ result.confidence_score = RatZero
    /\ result.garment_elements = <<>>
    /\ DOMAIN result.fabric_properties.materials = {}
    /\ result.size_variations = <<>>
    /\ result.accessibility_features = <<>>
    /\ result.validation_sources = {}

NamesFashionTool(generator) ==
    \E word \in { <<"c","l","o">>, <<"f","a","s","h","i","o","n">>,
                  <<"t","e","x","t","i","l","e">>, <<"g","a","r","m","e","n","t">> } :
        Contains(Lower(generator), word)

\* C6, as stated: an empty scene is analyzed without an error, and its
\* report has overall confidence 0 and every collection empty, the
\* false-positive flags included
C6_EverythingEmpty ==
    EmptySceneAnalyzed =>
        /\ raised = None
        /\ pc = "done" => EmptyReport /\ result.false_positive_flags = <<>>

\* C6, amended: an empty scene is analyzed without an error, and its report
\* has overall confidence 0 and every collection empty, except that the
\* flags hold generator_not_fashion_specific, and nothing else, when the
\* generator string names no fashion tool
C6_EmptyButGeneratorFlag ==
    EmptySceneAnalyzed =>
        /\ raised = None
        /\ pc = "done" =>
              /\ EmptyReport
              /\ result.false_positive_flags =
                    IF NamesFashionTool(result.generator) THEN <<>>
                    ELSE <<"generator_not_fashion_specific">>

\* C6: the report of an empty scene, flagged for its generator
C6_EmptySceneFlagged ==
    /\ EmptySceneAnalyzed
    /\ pc = "done"
    /\ EmptyReport
    /\ result.false_positive_flags = <<"generator_not_fashion_specific">>

\* None of the five top-level collections is in the scene
MissingCollections(data) ==
    \A key \in {"meshes", "materials", "textures", "images", "nodes"} : ~Has(data, key)

\* C7: a scene without any of its top-level collections produces no report,
\* and the error the analysis ends with is InvalidInput
C7_MissingCollectionsRejected ==
    (file.valid /\ MissingCollections(file.content)) =>
        /\ pc # "done"
        /\ result = NoValue
        /\ pc = "raised" => raised = "InvalidInput"

\* C7: the report of a scene without any top-level collection
C7_ReportWithoutCollections ==
    /\ file.valid
    /\ MissingCollections(file.content)
    /\ pc = "done"
    /\ raised = None
    /\ EmptyReport

(***************************************************************************)
(* Properties of the texture cross-references                              *)
(***************************************************************************)
\* holder[key] is the index of an entry of the table
Designates(holder, key, table) ==
    Has(holder, key) /\ holder[key] \in 0..(Len(table) - 1)

\* The slot leads to no image: its texture index or the texture's source
\* index is missing or out of range
Dangling(slot, textures, images) ==
    \/ ~Designates(slot, "index", textures)
    \/ ~Designates(textures[slot.index + 1], "source", images)

Without(d, keys) == [k \in (DOMAIN d) \ keys |-> d[k]]

\* The slot without its cross-reference when it is dangling
Unreferenced(slot, textures, images) ==
    IF Dangling(slot, textures, images) THEN Without(slot, {"index"}) ELSE slot

\* The material with the cross-reference of every dangling slot taken out:
\* the slots stay where they are and refer to nothing
WithoutDanglingSlots(material, textures, images) ==
    LET Cut(holder, keys) ==
            [k \in DOMAIN holder |->
                IF k \in keys THEN Unreferenced(holder[k], textures, images)
                ELSE holder[k]]
    IN  IF ~Has(material, "pbrMetallicRoughness")
        THEN Cut(material, {"normalTexture"})
        ELSE [Cut(material, {"normalTexture"}) EXCEPT !.pbrMetallicRoughness =
                 Cut(@, {"baseColorTexture", "metallicRoughnessTexture"})]

\* The scene without the dangling cross-references of its materials
SceneWithoutDanglingSlots(data) ==
    IF ~Has(data, "materials") THEN data
    ELSE [data EXCEPT !.materials =
            [i \in 1..Len(@) |->
                WithoutDanglingSlots(@[i], DictGet(data, "textures", <<>>),
                                     DictGet(data, "images", <<>>))]]

\* What _analyze_fabric_properties_advanced returns on the scene
FabricOf(data) ==
    LET Properties(fabric) ==
            [ materials |-> fabric.materials,
              confidence_distribution |-> fabric.confidence_distribution,
              validation_methods |-> fabric.validation_methods ]
    IN  Properties(AnalyzeFabricPropertiesAdvanced(data))

\* C8: a texture slot whose texture index or image source index is missing
\* or out of range, negative indexes included, raises no error, and the
\* materials are analyzed as they are when the slot refers to nothing
C8_DanglingSlotsSkipped ==
    /\ raised # "IndexError"
    /\ pc = "done" =>
          result.fabric_properties = FabricOf(SceneWithoutDanglingSlots(gltf_data))

\* Some texture slot of the scene, or some texture, has a negative index
HasNegativeIndex(data) ==
    \/ \E i \in 1..Len(DictGet(data, "materials", <<>>)) :
          \E ref \in Range(TextureRefs(data.materials[i])) :
              Has(ref[2], "index") /\ ref[2].index < 0
    \/ \E t \in 1..Len(DictGet(data, "textures", <<>>)) :
          Has(data.textures[t], "source") /\ data.textures[t].source < 0

\* C8, without the negative indexes: a slot that is missing its index, or
\* whose index is too large, changes nothing and raises nothing
C8_TooLargeOrMissingSkipped ==
    (file.valid /\ ~HasNegativeIndex(file.content)) => C8_DanglingSlotsSkipped

\* C8: a negative texture index reached a texture, and the material has a
\* texture candidate that it has not without the slot
C8_NegativeIndexResolved ==
    /\ pc = "done"
    /\ HasNegativeIndex(gltf_data)
    /\ result.fabric_properties # FabricOf(SceneWithoutDanglingSlots(gltf_data))

\* C8: a negative texture index on an empty texture table ends the analysis
C8_NegativeIndexRaises ==
    pc = "raised" /\ raised = "IndexError" /\ HasNegativeIndex(file.content)

NodeConfidence(node) ==
    IF NodeName(node) = <<>> THEN D_0_0
    ELSE SizeConfidence(SizeIndicators(NodeName(node)), GeometricValidation(node))

\* C10: every size variation of the report has a confidence above 0.5, and
\* no node of the scene has a higher confidence without its name or without
\* its scale
C10_RetainedAndMonotone ==
    /\ pc = "done" =>
          \A k \in 1..Len(result.size_variations) :
              FGt(result.size_variations[k].confidence, D_0_5)
    /\ \A node \in Range(DictGet(gltf_data, "nodes", <<>>)) :
          /\ FLe(NodeConfidence(Without(node, {"name"})), NodeConfidence(node))
          /\ FLe(NodeConfidence(Without(node, {"scale"})), NodeConfidence(node))

\* C10: a reported size variation of a node with a numeric size in its name
\* and a scale: 0.6 for the name and 0.2 for the scale
C10_NameAndScale ==
    /\ pc = "done"
    /\ \E sv \in Range(result.size_variations) :
          /\ sv.confidence = D_0_8
          /\ Has(gltf_data.nodes[sv.node_index + 1], "scale")
          /\ NodeConfidence(Without(gltf_data.nodes[sv.node_index + 1], {"scale"}))
                = D_0_6
          /\ NodeConfidence(Without(gltf_data.nodes[sv.node_index + 1], {"name"}))
                = D_0_0

(***************************************************************************)
(* Properties of the size detector on the node names it reads              *)
(***************************************************************************)
\* The node of Scenario D: named size_m, with the scale [1, 1, 1]
IsSizeMNode(node) ==
    /\ Has(node, "name") /\ node.name = <<"s","i","z","e","_","m">>
    /\ Has(node, "scale") /\ node.scale = ListOf(<<100, 100, 100>>)

SceneNodesOf(data) == DictGet(data, "nodes", <<>>)

\* The size variations the report holds for the node at position i
VariationsOf(i) ==
    { sv \in Range(result.size_variations) : sv.node_index = i - 1 }

\* C11: a node named size_m with the scale [1, 1, 1] is reported as a size
\* variation of confidence 1.0 that holds an explicit_sizes indicator of
\* confidence 0.8
C11_SizeMReported ==
    pc = "done" =>
        \A i \in 1..Len(SceneNodesOf(gltf_data)) :
            IsSizeMNode(gltf_data.nodes[i]) =>
                \E sv \in VariationsOf(i) :
                    /\ sv.confidence = D_1_0
                    /\ \E ind \in Range(sv.size_indicators) :
                          ind.type = "explicit_sizes" /\ ind.confidence = D_0_8

\* C11: the node named size_m with the scale [1, 1, 1] was analyzed and the
\* report holds no size variation: the underscore before the m is a word
\* character, so \b(...|m|...)\b matches nothing in the name
C11_SizeMDropped ==
    /\ pc = "done"
    /\ \E i \in 1..Len(SceneNodesOf(gltf_data)) :
          /\ IsSizeMNode(gltf_data.nodes[i])
          /\ SizeIndicators(NodeName(gltf_data.nodes[i])) = <<>>
    /\ result.size_variations = <<>>

\* The node carries a scale vector of three components
CarriesScaleVector(node) ==
    /\ Has(node, "scale")
    /\ node.scale.type = "list"
    /\ Len(node.scale.items) = 3

\* The largest confidence of a list of indicators, in twentieths
MaxIndicatorTwentieths(size_indicators) ==
    SetMax({ size_indicators[k].confidence.n : k \in 1..Len(size_indicators) })

\* The node at position i has a name and the patterns match in it
HasIndicators(node) ==
    NodeName(node) # <<>> /\ SizeIndicators(NodeName(node)) # <<>>

\* C12: every indicator of a reported size variation has confidence 0.8
\* when it is of the explicit-size family and 0.6 when it is of the
\* numeric-size or scale-variant family; the confidence of the variation is
\* min(1.0, largest indicator confidence + 0.2 when the node carries a scale
\* vector of three components); and a node is reported exactly when the
\* patterns match in its name, whatever its scale
C12_IndicatorsAndBoost ==
    pc = "done" =>
        /\ \A sv \in Range(result.size_variations) :
              /\ sv.size_indicators # <<>>
              /\ \A ind \in Range(sv.size_indicators) :
                    \/ ind.type = "explicit_sizes" /\ ind.confidence = D_0_8
                    \/ ind.type \in {"numeric_sizes", "scale_variants"}
                       /\ ind.confidence = D_0_6
              /\ sv.confidence \in {D_0_6, D_0_8, D_1_0}
              /\ sv.confidence.n =
                    Min(20, MaxIndicatorTwentieths(sv.size_indicators)
                            + IF CarriesScaleVector(gltf_data.nodes[sv.node_index + 1])
                              THEN 4 ELSE 0)
        /\ \A i \in 1..Len(SceneNodesOf(gltf_data)) :
              (VariationsOf(i) # {}) <=> HasIndicators(gltf_data.nodes[i])

\* C12: a reported node with an explicit-size and a numeric-size indicator
\* and a scale vector, of confidence 1.0
C12_TwoFamiliesWithScale ==
    /\ pc = "done"
    /\ \E sv \in Range(result.size_variations) :
          /\ \E ind \in Range(sv.size_indicators) : ind.type = "explicit_sizes"
          /\ \E ind \in Range(sv.size_indicators) : ind.type = "numeric_sizes"
          /\ CarriesScaleVector(gltf_data.nodes[sv.node_index + 1])
          /\ sv.confidence = D_1_0

(***************************************************************************)
(* Properties of the garment element detector on the scenario meshes       *)
(***************************************************************************)
SceneMeshesOf(data) == DictGet(data, "meshes", <<>>)

\* The mesh at position i of the scene has the name
MeshNamed(i, name) ==
    Has(gltf_data.meshes[i], "name") /\ gltf_data.meshes[i].name = name

\* The entries of the report for the mesh at position i
EntriesOf(i) ==
    { entry \in Range(result.garment_elements) : entry.mesh_index = i - 1 }

\* The elements with the keyword that the entry holds in the category
ElementsOf(entry, category, keyword) ==
    { at \in UNION { {d} \X (1..Len(entry.detected_elements[d].elements)) :
                     d \in 1..Len(entry.detected_elements) } :
        /\ entry.detected_elements[at[1]].category = category
        /\ entry.detected_elements[at[1]].elements[at[2]].element = keyword }

ElementAt(entry, at) == entry.detected_elements[at[1]].elements[at[2]]

FrontZipperClosure ==
    <<"f","r","o","n","t","_","z","i","p","p","e","r","_","c","l","o","s","u","r","e">>

\* C13: the report holds one entry for a mesh named front_zipper_closure,
\* and in its closures category one element for zipper, of confidence at
\* least 0.8 and with no exclusion keyword
C13_FrontZipperClosure ==
    pc = "done" =>
        \A i \in 1..Len(SceneMeshesOf(gltf_data)) :
            MeshNamed(i, FrontZipperClosure) =>
                /\ Cardinality(EntriesOf(i)) = 1
                /\ \A entry \in EntriesOf(i) :
                      /\ Cardinality(ElementsOf(entry, "closures", Zipper)) = 1
                      /\ \A at \in ElementsOf(entry, "closures", Zipper) :
                            /\ FLe(D_0_8, ElementAt(entry, at).confidence)
                            /\ ElementAt(entry, at).exclusion_flags = <<>>

\* C13: the zipper of a mesh named front_zipper_closure, reported with the
\* context keyword front and confidence 0.9
C13_ZipperWithFront ==
    /\ pc = "done"
    /\ \E i \in 1..Len(SceneMeshesOf(gltf_data)) :
          /\ MeshNamed(i, FrontZipperClosure)
          /\ \E entry \in EntriesOf(i) :
                \E at \in ElementsOf(entry, "closures", Zipper) :
                    /\ ElementAt(entry, at).context_matches
                          = << <<"f","r","o","n","t">> >>
                    /\ ElementAt(entry, at).confidence = D_0_9
                    /\ ElementAt(entry, at).validated

ZipperTexturePattern ==
    <<"z","i","p","p","e","r","_","t","e","x","t","u","r","e","_","p","a","t","t","e","r","n">>

\* The hits of the keyword in the mesh at position i
HitsOf(i, keyword) ==
    { h \in hit_log : h.mesh_index = i - 1 /\ h.element = keyword }

\* C14: in a mesh named zipper_texture_pattern the zipper is hit with a
\* confidence below 0.5, and the report holds no entry for the mesh
C14_ZipperTexturePattern ==
    pc = "done" =>
        \A i \in 1..Len(SceneMeshesOf(gltf_data)) :
            MeshNamed(i, ZipperTexturePattern) =>
                /\ HitsOf(i, Zipper) # {}
                /\ \A h \in HitsOf(i, Zipper) : FLt(h.confidence, D_0_5)
                /\ EntriesOf(i) = {}

\* C14: the zipper of a mesh named zipper_texture_pattern was hit with the
\* exclusions texture and pattern, and the mesh is not in the report
C14_TwoExclusionsDropped ==
    /\ pc = "done"
    /\ \E i \in 1..Len(SceneMeshesOf(gltf_data)) :
          /\ MeshNamed(i, ZipperTexturePattern)
          /\ \E h \in HitsOf(i, Zipper) :
                /\ h.exclusion_flags = << <<"t","e","x","t","u","r","e">>,
                                          <<"p","a","t","t","e","r","n">> >>
                /\ h.context_matches = <<>>
                /\ FLt(h.confidence, D_0_5)
          /\ EntriesOf(i) = {}

(***************************************************************************)
(* Properties of the material analysis: sources and retention              *)
(***************************************************************************)
SceneMaterialsOf(data) == DictGet(data, "materials", <<>>)

\* What each source contributes to the confidence of a scene material:
\* 0.95 for a CLO3D extension that holds something, the confidence of the
\* PBR classification for a PBR block that holds something, the confidence
\* of the texture validation; 0.0 for a source the material has not
ExtensionContribution(material) ==
    IF Has(material, "extensions")
       /\ DictGet(material.extensions, "CLO_material_properties", EmptyDict)
             # EmptyDict
    THEN D_0_95 ELSE D_0_0

PbrContribution(material, i) ==
    IF DictGet(material, "pbrMetallicRoughness", EmptyDict) = EmptyDict
    THEN D_0_0
    ELSE ClassifyFabricFromPbr(
             DictGet(material.pbrMetallicRoughness, "roughnessFactor", D_0_5),
             DictGet(material.pbrMetallicRoughness, "metallicFactor", D_0_0),
             Lower(MatName(material, i - 1))).confidence

TextureContribution(material, data) ==
    ValidateMaterialWithTextures(material, DictGet(data, "textures", <<>>),
                                 DictGet(data, "images", <<>>)).confidence

\* The largest contribution to the material at position i of the scene
MaxContribution(i) ==
    FMaxSeq(<< ExtensionContribution(gltf_data.materials[i]),
               PbrContribution(gltf_data.materials[i], i),
               TextureContribution(gltf_data.materials[i], gltf_data) >>)

\* The entries of the report analyzed from the material at position i
MaterialEntriesOf(i) ==
    { ma \in Range(Values(result.fabric_properties.materials)) : ma.index = i - 1 }

\* A later material of the scene is retained under the name of the one at i
OverwrittenLater(i) ==
    \E j \in (i + 1)..Len(gltf_data.materials) :
        /\ MatName(gltf_data.materials[j], j - 1) = MatName(gltf_data.materials[i], i - 1)
        /\ FGt(MaxContribution(j), D_0_3)

\* C15, as stated: the confidence of a material is the largest of the
\* confidences its sources contribute, and the material is in the report
\* if and only if that confidence is greater than 0.3
C15_ReportedIffAboveThreshold ==
    pc = "done" =>
        \A i \in 1..Len(SceneMaterialsOf(gltf_data)) :
            /\ \A ma \in MaterialEntriesOf(i) : ma.confidence = MaxContribution(i)
            /\ (MaterialEntriesOf(i) # {}) <=> FGt(MaxContribution(i), D_0_3)

\* C15, amended: the confidence of a material is the largest of the
\* confidences its sources contribute, and the material is in the report
\* if and only if that confidence is greater than 0.3 and no later material
\* of the scene with the same name (given or default) has a confidence
\* greater than 0.3
C15_ReportedUnlessOverwritten ==
    pc = "done" =>
        \A i \in 1..Len(SceneMaterialsOf(gltf_data)) :
            /\ \A ma \in MaterialEntriesOf(i) : ma.confidence = MaxContribution(i)
            /\ (MaterialEntriesOf(i) # {})
                  <=> (FGt(MaxContribution(i), D_0_3) /\ ~OverwrittenLater(i))

\* C15: two materials of one name, both above 0.3; the report holds the
\* second only, with a confidence of 0.9
C15_EarlierOverwritten ==
    /\ pc = "done"
    /\ Len(SceneMaterialsOf(gltf_data)) = 2
    /\ FGt(MaxContribution(1), D_0_3)
    /\ OverwrittenLater(1)
    /\ MaterialEntriesOf(1) = {}
    /\ \E ma \in MaterialEntriesOf(2) : ma.confidence = D_0_9

\* A vendor extension or a PBR classification supports the reported material
SupportedBesideTextures(ma) ==
    \/ HasSource(ma, "CLO3D_extension")
    \/ HasSource(ma, "PBR_analysis") /\ FGt(ma.properties.pbr_confidence, D_0_0)

\* C16: no material of the report has texture_analysis as its only
\* validation source, and every reported material with that source is also
\* supported by a vendor extension or by a PBR classification
C16_TexturesNeverAlone ==
    pc = "done" =>
        \A ma \in Range(Values(result.fabric_properties.materials)) :
            HasSource(ma, "texture_analysis") =>
                /\ ma.validation_sources # <<"texture_analysis">>
                /\ SupportedBesideTextures(ma)

\* C16: a material without extension and without PBR block, retained with
\* confidence 0.5 on a fibre keyword in the image of its normal map, with
\* texture_analysis as its only validation source
C16_TextureOnlyRetained ==
    /\ pc = "done"
    /\ \E ma \in Range(Values(result.fabric_properties.materials)) :
          /\ ma.validation_sources = <<"texture_analysis">>
          /\ ma.confidence = D_0_5
          /\ ~Has(gltf_data.materials[ma.index + 1], "extensions")
          /\ ~Has(gltf_data.materials[ma.index + 1], "pbrMetallicRoughness")
          /\ Has(gltf_data.materials[ma.index + 1], "normalTexture")

(***************************************************************************)
(* Properties of the PBR classification                                    *)
(***************************************************************************)
\* The lowercased name holds a keyword of the fibre
NamesFibre(name, fibre) ==
    \E f \in Range(fabric_indicators) :
        f.type = fibre /\ AnyIndicatorIn(f.indicators, Lower(name))

\* The fibres consistent with the roughness bucket
ConsistentFibres(roughness) ==
    IF FGt(roughness, D_0_8) THEN {"cotton", "linen"}
    ELSE IF FLt(roughness, D_0_3) THEN {"silk"}
    ELSE {}

\* The type and the confidence of the roughness bucket
BucketType(roughness) ==
    IF FGt(roughness, D_0_8) THEN "rough_fabric"
    ELSE IF FLt(roughness, D_0_3) THEN "smooth_fabric"
    ELSE "standard_fabric"

BucketConfidence(roughness) ==
    IF FGt(roughness, D_0_8) THEN D_0_7
    ELSE IF FLt(roughness, D_0_3) THEN D_0_6
    ELSE D_0_5

\* The reported materials with a PBR classification
PbrClassified ==
    { ma \in Range(Values(result.fabric_properties.materials)) :
        HasSource(ma, "PBR_analysis") }

\* C17: a reported material with metallic below 0.2 whose name holds a
\* keyword of a fibre consistent with its roughness bucket is classified as
\* such a fibre with confidence 0.9, whatever else its name holds; any other
\* material with metallic below 0.2 has the type and the confidence of its
\* bucket
C17_ConsistentFibreUpgrades ==
    pc = "done" =>
        \A ma \in PbrClassified :
            FLt(ma.properties.metallic, D_0_2) =>
                IF \E fibre \in ConsistentFibres(ma.properties.roughness) :
                       NamesFibre(ma.name, fibre)
                THEN /\ ma.properties.fabric_type
                           \in ConsistentFibres(ma.properties.roughness)
                     /\ NamesFibre(ma.name, ma.properties.fabric_type)
                     /\ ma.properties.pbr_confidence = D_0_9
                ELSE /\ ma.properties.fabric_type
                           = BucketType(ma.properties.roughness)
                     /\ ma.properties.pbr_confidence
                           = BucketConfidence(ma.properties.roughness)

\* C17: a smooth material named silk_cotton, reported as smooth_fabric with
\* confidence 0.6: the name is searched for the first fibre of the table it
\* holds, cotton, and silk is never compared with the bucket
C17_SilkNotUpgraded ==
    /\ pc = "done"
    /\ \E ma \in PbrClassified :
          /\ ma.name = <<"s","i","l","k","_","c","o","t","t","o","n">>
          /\ FLt(ma.properties.metallic, D_0_2)
          /\ FLt(ma.properties.roughness, D_0_3)
          /\ ma.properties.fabric_type = "smooth_fabric"
          /\ ma.properties.pbr_confidence = D_0_6

\* The PBR block of the material, and its metallicFactor (0.0 when missing)
PbrBlockOf(material) == DictGet(material, "pbrMetallicRoughness", EmptyDict)
MetallicOf(material) == DictGet(PbrBlockOf(material), "metallicFactor", D_0_0)

\* The material at position i has a PBR block that holds something and a
\* metallicFactor within the closed interval [0.2, 0.7]
AmbiguousMetallic(i) ==
    /\ PbrBlockOf(gltf_data.materials[i]) # EmptyDict
    /\ FLe(D_0_2, MetallicOf(gltf_data.materials[i]))
    /\ FLe(MetallicOf(gltf_data.materials[i]), D_0_7)

\* Neither a vendor extension nor a texture keyword supports the material
NoOtherSource(i) ==
    /\ ExtensionContribution(gltf_data.materials[i]) = D_0_0
    /\ TextureContribution(gltf_data.materials[i], gltf_data) = D_0_0

\* C18: a material with a metallicFactor within [0.2, 0.7] is classified
\* unknown with PBR confidence 0, whatever its roughness and its name, and
\* is not in the report when it has no vendor extension and no texture
\* keyword match
C18_AmbiguousMetallicUnclassified ==
    pc = "done" =>
        \A i \in 1..Len(SceneMaterialsOf(gltf_data)) :
            AmbiguousMetallic(i) =>
                /\ \A ma \in MaterialEntriesOf(i) :
                      /\ ma.properties.fabric_type = "unknown"
                      /\ ma.properties.pbr_confidence = D_0_0
                /\ NoOtherSource(i) => MaterialEntriesOf(i) = {}

\* C18: a rough material named cotton_shirt with metallicFactor 0.7 and no
\* other source was analyzed and is not in the report
C18_BoundaryNotRetained ==
    /\ pc = "done"
    /\ \E i \in 1..Len(SceneMaterialsOf(gltf_data)) :
          /\ AmbiguousMetallic(i)
          /\ MetallicOf(gltf_data.materials[i]) = D_0_7
          /\ DictGet(PbrBlockOf(gltf_data.materials[i]), "roughnessFactor", D_0_5)
                = D_0_9
          /\ NamesFibre(MatName(gltf_data.materials[i], i - 1), "cotton")
          /\ NoOtherSource(i)
          /\ MaterialEntriesOf(i) = {}

\* The material at position i has a PBR block with a metallicFactor above 0.7
HighMetallic(i) ==
    /\ PbrBlockOf(gltf_data.materials[i]) # EmptyDict
    /\ FGt(MetallicOf(gltf_data.materials[i]), D_0_7)

\* C19: a material with a metallicFactor above 0.7 is classified
\* metallic_hardware with PBR confidence 0.9, whatever its roughness and its
\* name, and is in the report unless a later material takes its name
C19_MetallicHardware ==
    pc = "done" =>
        \A i \in 1..Len(SceneMaterialsOf(gltf_data)) :
            HighMetallic(i) =>
                /\ \A ma \in MaterialEntriesOf(i) :
                      /\ ma.properties.fabric_type = "metallic_hardware"
                      /\ ma.properties.pbr_confidence = D_0_9
                      /\ FLe(D_0_9, ma.confidence)
                /\ MaterialEntriesOf(i) # {} \/ OverwrittenLater(i)

\* C19: a rough material named cotton_shirt with metallicFactor 0.9,
\* reported as metallic_hardware with confidence 0.9
C19_RoughCottonHardware ==
    /\ pc = "done"
    /\ \E i \in 1..Len(SceneMaterialsOf(gltf_data)) :
          /\ MetallicOf(gltf_data.materials[i]) = D_0_9
          /\ \E ma \in MaterialEntriesOf(i) :
                /\ NamesFibre(ma.name, "cotton")
                /\ ma.properties.roughness = D_0_9
                /\ ma.properties.fabric_type = "metallic_hardware"
                /\ ma.confidence = D_0_9

(***************************************************************************)
(* Properties of the entries of the garment element report                 *)
(***************************************************************************)
\* x is the largest of the confidences of the sequence
IsLargestOf(x, confidences) ==
    /\ \E k \in 1..Len(confidences) : confidences[k] = x
    /\ \A k \in 1..Len(confidences) : FLe(confidences[k], x)

CategoryConfidences(entry) ==
    [d \in 1..Len(entry.detected_elements) |->
        entry.detected_elements[d].category_confidence]

\* The mesh at position i has a name and a keyword hit above 0.5 in it
HasRetainedElement(i) ==
    /\ DictGet(gltf_data.meshes[i], "name", <<>>) # <<>>
    /\ \E h \in hit_log : h.mesh_index = i - 1 /\ FGt(h.confidence, D_0_5)

\* C20: every entry of the report has at least one category; the confidence
\* of a category is the largest confidence of its elements, all retained
\* above 0.5; the confidence of the entry is the largest confidence of its
\* categories, above 0.5 and at most 1.0; and a mesh has an entry, and one
\* only, exactly when it has a name and an element retained
C20_MaxOfCategories ==
    pc = "done" =>
        /\ \A entry \in Range(result.garment_elements) :
              /\ entry.detected_elements # <<>>
              /\ \A d \in 1..Len(entry.detected_elements) :
                    /\ entry.detected_elements[d].elements # <<>>
                    /\ \A el \in Range(entry.detected_elements[d].elements) :
                          FGt(el.confidence, D_0_5)
                    /\ IsLargestOf(entry.detected_elements[d].category_confidence,
                                   ElementConfidences(
                                       entry.detected_elements[d].elements))
              /\ IsLargestOf(entry.confidence_score, CategoryConfidences(entry))
              /\ FGt(entry.confidence_score, D_0_5)
              /\ FLe(entry.confidence_score, D_1_0)
        /\ \A i \in 1..Len(SceneMeshesOf(gltf_data)) :
              /\ Cardinality(EntriesOf(i)) <= 1
              /\ (EntriesOf(i) # {}) <=> HasRetainedElement(i)

\* C20: an entry with two categories of different confidences, 0.9 and
\* 0.8, and the confidence 0.9, beside a mesh without a name that has no
\* entry
C20_TwoCategories ==
    /\ pc = "done"
    /\ \E entry \in Range(result.garment_elements) :
          /\ Len(entry.detected_elements) = 2
          /\ entry.detected_elements[1].category_confidence = D_0_9
          /\ entry.detected_elements[2].category_confidence = D_0_8
          /\ entry.confidence_score = D_0_9
    /\ \E i \in 1..Len(SceneMeshesOf(gltf_data)) :
          /\ DictGet(gltf_data.meshes[i], "name", <<>>) = <<>>
          /\ EntriesOf(i) = {}

(***************************************************************************)
(* Properties of the accessibility features                                *)
(***************************************************************************)
\* The keywords of the score table, as the specification lists them
TableKeywords ==
    { <<"v","e","l","c","r","o">>, <<"m","a","g","n","e","t","i","c">>,
      <<"s","n","a","p">>, <<"z","i","p","p","e","r">>,
      <<"c","r","e","m","a","l","l","e","r","a">>, <<"b","u","t","t","o","n">>,
      <<"b","o","t","ó","n">>, <<"t","i","e">>, <<"t","o","g","g","l","e">> }

TableScore(keyword) ==
    CASE keyword \in { <<"v","e","l","c","r","o">>, <<"m","a","g","n","e","t","i","c">> } -> D_0_9
      [] keyword = <<"s","n","a","p">> -> D_0_7
      [] keyword \in { <<"z","i","p","p","e","r">>,
                       <<"c","r","e","m","a","l","l","e","r","a">> } -> D_0_6
      [] keyword = <<"t","o","g","g","l","e">> -> D_0_5
      [] keyword \in { <<"b","u","t","t","o","n">>, <<"b","o","t","ó","n">> } -> D_0_4
      [] keyword = <<"t","i","e">> -> D_0_3
      [] OTHER -> D_0_0

\* The places <<entry, category, element>> of the retained closures
\* elements of the report whose keyword is in the score table
ScoredClosures ==
    { at \in UNION { UNION { {m} \X {d} \X
                             (1..Len(result.garment_elements[m].detected_elements[d].elements)) :
                             d \in 1..Len(result.garment_elements[m].detected_elements) } :
                     m \in 1..Len(result.garment_elements) } :
        /\ result.garment_elements[at[1]].detected_elements[at[2]].category = "closures"
        /\ result.garment_elements[at[1]].detected_elements[at[2]].elements[at[3]].element
              \in TableKeywords }

\* The feature that the element at the place originates
FeatureFrom(at) ==
    LET Feature(entry, el) ==
            [ type       |-> "closure_accessibility",
              element    |-> el.element,
              mesh_name  |-> entry.mesh_name,
              accessibility_score |-> TableScore(el.element),
              confidence |-> el.confidence,
              validated  |-> el.validated ]
    IN  Feature(result.garment_elements[at[1]],
                result.garment_elements[at[1]].detected_elements[at[2]].elements[at[3]])

\* C21: the feature list of a report holds, for every retained closures
\* element whose keyword is in the score table, one feature with the table
\* score of the keyword and the confidence and validated flag of the
\* element, and nothing else: no feature for a keyword without a table
\* entry and none for an element of another category
C21_OneFeaturePerScoredClosure ==
    pc = "done" =>
        /\ Len(result.accessibility_features) = Cardinality(ScoredClosures)
        /\ \A f \in Range(result.accessibility_features)
                    \cup { FeatureFrom(at) : at \in ScoredClosures } :
              Cardinality({ k \in 1..Len(result.accessibility_features) :
                              result.accessibility_features[k] = f })
                  = Cardinality({ at \in ScoredClosures : FeatureFrom(at) = f })

\* C21: a report with the features of snap (0.7) and button (0.4) of one
\* mesh and none for the retained fastener of another
C21_SnapButtonNoFastener ==
    /\ pc = "done"
    /\ Len(result.garment_elements) = 2
    /\ \E at \in ElementsOf(result.garment_elements[2], "closures",
                            <<"f","a","s","t","e","n","e","r">>) : TRUE
    /\ Len(result.accessibility_features) = 2
    /\ result.accessibility_features[1].element = <<"b","u","t","t","o","n">>
    /\ result.accessibility_features[1].accessibility_score = D_0_4
    /\ result.accessibility_features[2].element = <<"s","n","a","p">>
    /\ result.accessibility_features[2].accessibility_score = D_0_7
    /\ \A k \in 1..2 :
          /\ result.accessibility_features[k].confidence = D_0_9
          /\ result.accessibility_features[k].validated

(***************************************************************************)
(* Properties of the false-positive flags                                  *)
(***************************************************************************)
\* The category detections of the report, summed over the reported meshes
CategoryDetections ==
    SumSeq([m \in 1..Len(result.garment_elements) |->
               Len(result.garment_elements[m].detected_elements)])

Flagged(flag) == flag \in Range(result.false_positive_flags)

\* C22: a report carries too_many_garment_elements_detected exactly when
\* the category detections of its meshes are more than 0.8 times the meshes
\* the scene declares (5 x detections > 4 x meshes); one detection on one
\* mesh raises the flag, no detection never does
C22_FlagIffAboveFourFifths ==
    pc = "done" =>
        /\ Flagged("too_many_garment_elements_detected")
              <=> 5 * CategoryDetections > 4 * Len(SceneMeshesOf(gltf_data))
        /\ (Len(SceneMeshesOf(gltf_data)) = 1 /\ CategoryDetections = 1)
              => Flagged("too_many_garment_elements_detected")
        /\ CategoryDetections = 0
              => ~Flagged("too_many_garment_elements_detected")

\* C22: a scene of one mesh with one category detection, flagged
C22_OneMeshOneDetection ==
    /\ pc = "done"
    /\ Len(SceneMeshesOf(gltf_data)) = 1
    /\ CategoryDetections = 1
    /\ Flagged("too_many_garment_elements_detected")

\* C22: a scene of two meshes with one category detection, not flagged
C22_TwoMeshesOneDetection ==
    /\ pc = "done"
    /\ Len(SceneMeshesOf(gltf_data)) = 2
    /\ CategoryDetections = 1
    /\ ~Flagged("too_many_garment_elements_detected")

(***************************************************************************)
(* _detect_false_positives called on its own: on a scene, a list of        *)
(* garment elements and a classifier result that need not come from the    *)
(* same file.                                                              *)
(***************************************************************************)
\* Scenes that declare up to MaxMeshes meshes and MaxMaterials materials
DetectorScenes ==
    { EmptyDict }
    \cup { Scene([i \in 1..ms |-> Named(<<"p","l","a","i","n","_","m","e","s","h">>)],
                 [i \in 1..mats |-> EmptyDict], <<>>, <<>>, <<>>) :
             ms \in 0..MaxMeshes, mats \in 0..MaxMaterials }
    \cup { WithGenerator(
               Scene([i \in 1..ms |-> Named(<<"p","l","a","i","n","_","m","e","s","h">>)],
                     [i \in 1..mats |-> EmptyDict], <<>>, <<>>, <<>>), g) :
             ms \in 0..MaxMeshes, mats \in 0..MaxMaterials, g \in Generators }

\* Lists of garment elements, as the element detector builds them
DetectorElements ==
    { AnalyzeGarmentElementsContextual(Scene(ms, <<>>, <<>>, <<>>, <<>>)) :
        ms \in SeqsUpTo(MixMeshes, MaxMeshes) }

\* Classifier results with up to MaxMaterials + 1 material entries
DetectorMaterialNames ==
    { <<"c","o","t","t","o","n","_","s","h","i","r","t">>, <<"s","i","l","k">>,
      <<"m","a","t","e","r","i","a","l","_","1">> }

DetectorFabrics ==
    { EmptyDict }
    \cup { [ materials |-> [n \in names |->
                              [ name |-> n, index |-> 0, properties |-> EmptyDict,
                                confidence |-> D_0_9,
                                validation_sources |-> <<"PBR_analysis">> ]],
             confidence_distribution |-> EmptyDict,
             validation_methods |-> <<>> ] :
             names \in { s \in SUBSET DetectorMaterialNames :
                           Cardinality(s) <= MaxMaterials + 1 } }

InitDetector ==
    /\ NoApp
    /\ file = InvalidJson
    /\ pc = "detector_called"
    /\ runs = 0
    /\ gltf_data \in DetectorScenes
    /\ garment_elements \in DetectorElements
    /\ fabric_properties \in DetectorFabrics
    /\ size_variations = NoValue
    /\ accessibility_features = NoValue
    /\ confidence_score = NoValue
    /\ validation_sources = NoValue
    /\ false_positive_flags = NoValue
    /\ hit_log = {}
    /\ result = NoValue
    /\ raised = None
    /\ previous = NoValue

\* flags = self._detect_false_positives(gltf_data, garment_elements,
\*                                      fabric_properties)
DetectFalsePositivesCalled ==
    /\ pc = "detector_called"
    /\ false_positive_flags' =
           DetectFalsePositives(gltf_data, garment_elements, fabric_properties)
    /\ pc' = "detector_returned"
    /\ UNCHANGED << file, runs, gltf_data, garment_elements, fabric_properties,
                    size_variations, accessibility_features, confidence_score,
                    validation_sources, hit_log, result, raised, previous >>
    /\ UNCHANGED app

NextDetector == DetectFalsePositivesCalled

SpecDetector == InitDetector /\ [][NextDetector]_vars

\* The material entries of the classifier result handed to the detector
GivenMaterialEntries ==
    Cardinality(DOMAIN DictGet(fabric_properties, "materials", EmptyDict))

\* C23: the detector returns material_count_inconsistency exactly when the
\* classifier result holds more material entries than the scene declares
\* materials, whatever the generator and the garment elements are; with 1
\* entry and 0 materials declared the flag is returned
C23_FlagIffMoreEntries ==
    pc = "detector_returned" =>
        /\ "material_count_inconsistency" \in Range(false_positive_flags)
              <=> GivenMaterialEntries > Len(SceneMaterialsOf(gltf_data))
        /\ (GivenMaterialEntries = 1 /\ Len(SceneMaterialsOf(gltf_data)) = 0)
              => "material_count_inconsistency" \in Range(false_positive_flags)

\* C23: 1 material entry on a scene that declares 0 materials: the flag is
\* returned, and it is the only flag
C23_OneEntryNoneDeclared ==
    /\ pc = "detector_returned"
    /\ GivenMaterialEntries = 1
    /\ Has(gltf_data, "materials")
    /\ Len(SceneMaterialsOf(gltf_data)) = 0
    /\ false_positive_flags = <<"material_count_inconsistency">>

(***************************************************************************)
(* Properties of the materials collection of a report                      *)
(***************************************************************************)
ReportedMaterials == result.fabric_properties.materials

\* C24: no report of a full analysis carries material_count_inconsistency:
\* the materials collection never holds more entries than the scene
\* declares materials
C24_NeverMoreEntriesThanDeclared ==
    pc = "done" =>
        /\ ~Flagged("material_count_inconsistency")
        /\ Cardinality(DOMAIN ReportedMaterials) <= Len(SceneMaterialsOf(gltf_data))

\* C24: a report that holds an entry for each of the two materials the
\* scene declares, without the flag
C24_EveryMaterialReported ==
    /\ pc = "done"
    /\ Len(SceneMaterialsOf(gltf_data)) = 2
    /\ Cardinality(DOMAIN ReportedMaterials) = 2
    /\ ~Flagged("material_count_inconsistency")

\* The material at position i is the last of its name (given or default)
\* with a confidence greater than 0.3
Survives(i) == FGt(MaxContribution(i), D_0_3) /\ ~OverwrittenLater(i)

\* The positions of the surviving materials, in the order of the scene
Survivors ==
    SelectSeq([i \in 1..Len(SceneMaterialsOf(gltf_data)) |-> i],
              LAMBDA i : Survives(i))

\* C25: the materials collection holds one entry per name, under each name
\* the entry of the last material of that name whose confidence is greater
\* than 0.3; and when nothing but materials is detected the overall
\* confidence is 0.3 times the average confidence of these entries
C25_LastOfNameKept ==
    pc = "done" =>
        /\ DOMAIN ReportedMaterials =
              { MatName(gltf_data.materials[Survivors[k]], Survivors[k] - 1) :
                  k \in 1..Len(Survivors) }
        /\ Cardinality(DOMAIN ReportedMaterials) = Len(Survivors)
        /\ \A k \in 1..Len(Survivors) :
              /\ ReportedMaterials[MatName(gltf_data.materials[Survivors[k]],
                                           Survivors[k] - 1)].index
                    = Survivors[k] - 1
              /\ ReportedMaterials[MatName(gltf_data.materials[Survivors[k]],
                                           Survivors[k] - 1)].confidence
                    = MaxContribution(Survivors[k])
        /\ \A name \in DOMAIN ReportedMaterials : ReportedMaterials[name].name = name
        /\ (/\ result.garment_elements = <<>>
            /\ result.size_variations = <<>>
            /\ result.accessibility_features = <<>>)
              => result.confidence_score =
                    IF Survivors = <<>> THEN RatZero
                    ELSE RatMul(Average([k \in 1..Len(Survivors) |->
                                            MaxContribution(Survivors[k])]),
                                WeightMaterials)

\* C25: two materials named cotton_shirt, of confidences 0.95 and 0.9; the
\* report holds the second only and its overall confidence is 0.3 x 0.9
C25_SecondOfNameKept ==
    /\ pc = "done"
    /\ Len(SceneMaterialsOf(gltf_data)) = 2
    /\ MaxContribution(1) = D_0_95
    /\ MaxContribution(2) = D_0_9
    /\ DOMAIN ReportedMaterials = { <<"c","o","t","t","o","n","_","s","h","i","r","t">> }
    /\ ReportedMaterials[<<"c","o","t","t","o","n","_","s","h","i","r","t">>].index = 1
    /\ result.confidence_score = Rat(27, 100)

\* C25: an unnamed second material takes the place of a first material
\* that is named material_1
C25_DefaultNameCollides ==
    /\ pc = "done"
    /\ Len(SceneMaterialsOf(gltf_data)) = 2
    /\ Has(gltf_data.materials[1], "name")
    /\ ~Has(gltf_data.materials[2], "name")
    /\ FGt(MaxContribution(1), D_0_3)
    /\ DOMAIN ReportedMaterials = { <<"m","a","t","e","r","i","a","l","_","1">> }
    /\ ReportedMaterials[<<"m","a","t","e","r","i","a","l","_","1">>].index = 1

(***************************************************************************)
(***************************************************************************)
(* The dashboard (src/streamlit_app.py), the analyzer it calls             *)
(* (src/analyzer_main.py) and the chatbot it shares between its sessions   *)
(* (src/chatbot/accessibility_chatbot.py, src/chatbot/llm_client.py).      *)
(***************************************************************************)
\* Dashboard sessions (browser tabs) served by one process; they are also
\* the callers of the chatbot.  A session performs at most MaxAnalyses
\* analyses; the chatbot creates at most MaxSessions chat sessions and is
\* asked at most MaxChats questions; the clock shows MaxClock + 1 seconds.
MaxUsers    == 2
MaxAnalyses == 2
MaxSessions == 2
MaxChats    == 2
MaxClock    == 1

Users == 1..MaxUsers

\* None in a slot that otherwise holds a str
NoText == << None >>

\* A JSON value of a provider's response: a list, or null
JsonList(items) == [type |-> "list", items |-> items]
JsonNull == [type |-> "null"]

(***************************************************************************)
(* CLO3DAnalyzer.analyze_file (analyzer_main.py)                           *)
(***************************************************************************)
\* What st.file_uploader returns; the size in whole megabytes
UploadedFile(name, size_mb, content) ==
    [name |-> name, size_mb |-> size_mb, content |-> content]

\* Path(name).suffix: from the last dot on, when the dot is neither the
\* first nor the last character
Suffix(name) ==
    LET From(dots) ==
            IF dots = {} THEN <<>>
            ELSE IF SetMax(dots) = 1 \/ SetMax(dots) = Len(name) THEN <<>>
            ELSE SubSeq(name, SetMax(dots), Len(name))
    IN  From({ i \in 1..Len(name) : name[i] = "." })

\* format_names.get(file_ext, f"Archivo {file_ext}")
FormatName(file_ext) ==
    CASE file_ext = <<".","z","p","r","j">> ->
            <<"C","L","O","3","D"," ","P","r","o","j","e","c","t">>
      [] file_ext = <<".","z","p","a","c">> ->
            <<"C","L","O","3","D"," ","P","a","c","k","a","g","e">>
      [] file_ext = <<".","o","b","j">> ->
            <<"W","a","v","e","f","r","o","n","t"," ","O","B","J">>
      [] OTHER -> <<"A","r","c","h","i","v","o"," ">> \o file_ext

\* What analyze_file ends with: the exception raised, or the results
Raises(exception) == [raised |-> exception, results |-> NoValue]
Returns(results)  == [raised |-> None, results |-> results]

\* _create_basic_results: the fields of AnalysisResults the dashboard
\* reads when it stores them; object is the identity of the Python object
BasicResults(file_type, object) ==
    [ object            |-> object,
      file_type         |-> file_type,
      status            |-> "Análisis básico completado",
      technical_details |-> [analysis_type |-> "basic"],
      screening_report  |-> [confidence_levels |->
                                [overall_analysis |-> Rat(3, 10)]] ]

\* _analyze_gltf and _convert_gltf_result on the file's content
AnalyzeGltf(content, object) ==
    LET Convert(data, confidence) ==
            Returns(
              [ object            |-> object,
                file_type         |->
                    <<"G","L","T","F"," ","3","D"," ","M","o","d","e","l"," ","(","v">>
                    \o DictGet(DictGet(data, "asset", EmptyDict), "version",
                               <<"U","n","k","n","o","w","n">>)
                    \o <<")">>,
                status            |-> "Análisis GLTF mejorado completado",
                technical_details |->
                    [ gltf_version |-> DictGet(DictGet(data, "asset", EmptyDict),
                                               "version", <<"U","n","k","n","o","w","n">>),
                      generator    |-> DictGet(DictGet(data, "asset", EmptyDict),
                                               "generator", <<"U","n","k","n","o","w","n">>),
                      confidence_score |-> confidence ],
                screening_report  |-> [confidence_levels |->
                                          [overall_analysis |-> confidence]] ])
        Analyzed(data, elements, fabric, sizes) ==
            IF fabric.raised THEN Raises("IndexError")
            ELSE Convert(data,
                         CalculateOverallConfidence(
                             elements, fabric, sizes,
                             AnalyzeAccessibilityFeatures(elements)))
        Loaded(data) ==
            Analyzed(data, AnalyzeGarmentElementsContextual(data),
                     AnalyzeFabricPropertiesAdvanced(data),
                     AnalyzeSizeVariationsValidated(data))
    IN  IF ~content.valid THEN Raises("ValueError") ELSE Loaded(content.content)

\* analyze_file on the temporary copy of the upload, whose suffix is the
\* suffix of the upload's name
CLO3DAnalyzeFile(upload, object) ==
    LET Of(file_ext) ==
            IF file_ext = <<".","g","l","t","f">>
            THEN AnalyzeGltf(upload.content, object)
            ELSE Returns(BasicResults(FormatName(file_ext), object))
    IN  Of(Lower(Suffix(upload.name)))

(***************************************************************************)
(* ChatSession and AccessibilityChatbot (accessibility_chatbot.py)         *)
(***************************************************************************)
TwoDigits(n) == <<Digits[(n \div 10) + 1], Digits[(n % 10) + 1]>>

\* f"session_{datetime.now().strftime('%Y%m%d_%H%M%S')}" at second `now`
\* of the first minute of one day
SessionId(now) ==
    <<"s","e","s","s","i","o","n","_","2","0","2","5","0","1","0","1","_">>
    \o TwoDigits((now \div 3600) % 24) \o TwoDigits((now \div 60) % 60)
    \o TwoDigits(now % 60)

ChatMessage(role, content) == [role |-> role, content |-> content]

\* ChatSession.__init__ and _initialize_system_context: the system prompt
\* is written from the analysis results
ChatSession(analysis_results, now) ==
    [ session_id       |-> SessionId(now),
      analysis_results |-> analysis_results,
      messages         |-> << ChatMessage("system", [context |-> analysis_results]) >>,
      created_at       |-> now ]

\* create_session: the new session is stored under its id; active maps a
\* session id to the position of its ChatSession object in sessions
ActiveSessionsAfterCreate(sessions, active, now) ==
    (SessionId(now) :> Len(sessions) + 1) @@ active

\* get_session: the position of the session, 0 for None
GetSession(active, session_id) == DictGet(active, session_id, 0)

\* provider or self.default_provider, None when there is neither
SelectedProvider(provider) ==
    IF provider # None THEN provider
    ELSE IF clients # <<>> THEN clients[1] ELSE None

\* What a chat call does before it awaits the provider
ChatRejection(session_id, provider) ==
    IF GetSession(active_sessions, session_id) = 0
    THEN "Error: Sesión no encontrada"
    ELSE IF SelectedProvider(provider) = None
    THEN "Error: No hay proveedores LLM disponibles"
    ELSE IF SelectedProvider(provider) \notin Range(clients)
    THEN "Error: Proveedor no disponible"
    ELSE None

\* LLMClient.get_response_text: the text, or the exception that neither
\* this method nor KeyError/IndexError handling catches
GetResponseText(provider, response) ==
    LET Text(item, key) ==
            IF key = "text" THEN [raised |-> None, text |-> DictGet(item, "text", "")]
            ELSE [raised |-> None,
                  text |-> DictGet(DictGet(item, "message", EmptyDict), "content", "")]
        First(list, key) ==
            IF list.type = "null" THEN [raised |-> "TypeError", text |-> ""]
            ELSE IF list.items = <<>>
            THEN [raised |-> None, text |-> "Error procesando respuesta del LLM"]
            ELSE Text(list.items[1], key)
    IN  IF provider = "anthropic"
        THEN First(DictGet(response, "content", JsonList(<<EmptyDict>>)), "text")
        ELSE First(DictGet(response, "choices", JsonList(<<EmptyDict>>)), "message")

\* What the awaited chat_completion ends with: an exception (an HTTP error
\* status, a timeout) or the JSON object of the response
Replies ==
    { [raised |-> "HTTPStatusError", response |-> EmptyDict] }
    \cup { [raised |-> None, response |-> r] : r \in
             { [ choices |-> JsonList(<< [message |-> [content |-> "answer"]] >>),
                 content |-> JsonList(<< [text |-> "answer"] >>) ],
               [choices |-> JsonList(<<>>), content |-> JsonList(<<>>)],
               [choices |-> JsonNull, content |-> JsonNull] } }

\* chat answering a failed request with an assistant message
ChatOutcomeAnsweringErrors(provider, reply) ==
    LET Extracted(got) ==
            IF got.raised # None
            THEN [response |-> "Error procesando chat: " \o got.raised,
                  success |-> FALSE, appended |-> <<>>,
                  raised_in |-> "get_response_text"]
            ELSE [response |-> got.text, success |-> TRUE,
                  appended |-> << ChatMessage("assistant", [text |-> got.text]) >>,
                  raised_in |-> None]
    IN  IF reply.raised # None
        THEN [response |-> "Error procesando chat: " \o reply.raised,
              success |-> FALSE,
              appended |-> << ChatMessage("assistant",
                                  [text |-> "Error procesando chat: " \o reply.raised]) >>,
              raised_in |-> "chat_completion"]
        ELSE Extracted(GetResponseText(provider, reply.response))

\* What chat returns after the await, for the reply of the provider
ChatOutcome(provider, reply) ==
    LET Extracted(got) ==
            IF got.raised # None
            THEN [response |-> "Error procesando chat: " \o got.raised,
                  success |-> FALSE, appended |-> <<>>,
                  raised_in |-> "get_response_text"]
            ELSE [response |-> got.text, success |-> TRUE,
                  appended |-> << ChatMessage("assistant", [text |-> got.text]) >>,
                  raised_in |-> None]
    IN  IF reply.raised # None
        THEN [response |-> "Error procesando chat: " \o reply.raised,
              success |-> FALSE, appended |-> <<>>,
              raised_in |-> "chat_completion"]
        ELSE Extracted(GetResponseText(provider, reply.response))

\* The calls of chat that have started: those returned and those awaiting
ChatsStarted ==
    Len(chat_returns) + Cardinality({ c \in DOMAIN in_flight : in_flight[c] # NoValue })

\* The return of one chat call, as its caller receives it, with the
\* session object the call worked on (0 for none) and the call of the try
\* block that raised
ChatReturn(caller, session, response, success, raised_in) ==
    [ caller |-> caller, session |-> session, response |-> response,
      success |-> success, raised_in |-> raised_in ]

\* create_session(analysis_results) at the current second
CreateSession(analysis_results) ==
    /\ Len(chat_sessions) < MaxSessions
    /\ chat_sessions' = Append(chat_sessions, ChatSession(analysis_results, clock))
    /\ active_sessions' = ActiveSessionsAfterCreate(chat_sessions, active_sessions, clock)

\* chat(session_id, user_message, provider) up to its await, or to the
\* return of an error found before the try block
ChatStarts(caller, session_id, user_message, provider, via) ==
    /\ ChatsStarted < MaxChats
    /\ in_flight[caller] = NoValue
    /\ IF ChatRejection(session_id, provider) # None
       THEN /\ chat_returns' =
                   Append(chat_returns,
                          ChatReturn(caller, GetSession(active_sessions, session_id),
                                     ChatRejection(session_id, provider), FALSE, None))
            /\ UNCHANGED << chat_sessions, in_flight >>
       ELSE /\ chat_sessions' =
                   [chat_sessions EXCEPT
                      ![GetSession(active_sessions, session_id)].messages =
                          Append(@, ChatMessage("user", [text |-> user_message]))]
            /\ in_flight' =
                   [in_flight EXCEPT ![caller] =
                      [ session  |-> GetSession(active_sessions, session_id),
                        provider |-> SelectedProvider(provider),
                        question |-> user_message,
                        via      |-> via ]]
            /\ UNCHANGED chat_returns

\* The rest of chat once chat_completion has ended with reply
ChatEnds(caller, reply) ==
    LET With(call, outcome) ==
            /\ chat_sessions' =
                   [chat_sessions EXCEPT ![call.session].messages = @ \o outcome.appended]
            /\ chat_returns' =
                   Append(chat_returns,
                          ChatReturn(caller, call.session, outcome.response,
                                     outcome.success, outcome.raised_in))
            /\ in_flight' = [in_flight EXCEPT ![caller] = NoValue]
    IN  With(in_flight[caller], ChatOutcome(in_flight[caller].provider, reply))

(***************************************************************************)
(* The chatbot called by MaxUsers callers of one process.                  *)
(***************************************************************************)
\* The environment's API keys: the clients LLMManager initializes, in the
\* order of LLMProvider
ClientSets == { <<>>, <<"openai">>, <<"anthropic", "groq">> }

Questions == { "¿Es accesible?" }

\* The results caller u hands to create_session: its n-th analysis
ResultsOf(u) ==
    { BasicResults(FormatName(<<".","z","p","r","j">>), << u, n >>) :
        n \in 1..MaxAnalyses }

\* Session ids a caller may pass to chat: every id of the clock's range,
\* whether it was returned or not
SessionIds == { SessionId(t) : t \in 0..MaxClock }

InitAnalyzerIdle ==
    /\ file = InvalidJson
    /\ pc = "idle"
    /\ runs = 0
    /\ gltf_data = NoValue
    /\ garment_elements = NoValue
    /\ fabric_properties = NoValue
    /\ size_variations = NoValue
    /\ accessibility_features = NoValue
    /\ confidence_score = NoValue
    /\ validation_sources = NoValue
    /\ false_positive_flags = NoValue
    /\ hit_log = {}
    /\ result = NoValue
    /\ raised = None
    /\ previous = NoValue

InitChatbot ==
    /\ InitAnalyzerIdle
    /\ session_state = <<>>
    /\ uploaded_file = <<>>
    /\ page = <<>>
    /\ clients \in ClientSets
    /\ chat_sessions = <<>>
    /\ active_sessions = <<>>
    /\ clock = 0
    /\ in_flight = [u \in Users |-> NoValue]
    /\ chat_returns = <<>>

\* A caller calls create_session
CreateSessionCalled(u) ==
    /\ in_flight[u] = NoValue
    /\ \E analysis_results \in ResultsOf(u) : CreateSession(analysis_results)
    /\ UNCHANGED << session_state, uploaded_file, page, clients, clock, in_flight,
                    chat_returns >>
    /\ UNCHANGED analysis

\* A caller calls chat
ChatCalled(u) ==
    /\ \E session_id \in SessionIds, user_message \in Questions,
          provider \in {None, "openai", "anthropic", "mistral"} :
           ChatStarts(u, session_id, user_message, provider, "api")
    /\ UNCHANGED << session_state, uploaded_file, page, clients, active_sessions, clock >>
    /\ UNCHANGED analysis

\* The provider request of a caller's chat ends and chat returns
ChatCompletes(u) ==
    /\ in_flight[u] # NoValue
    /\ in_flight[u].via = "api"
    /\ \E reply \in Replies : ChatEnds(u, reply)
    /\ UNCHANGED << session_state, uploaded_file, page, clients, active_sessions, clock >>
    /\ UNCHANGED analysis

\* A second passes on datetime.now()
Tick ==
    /\ clock < MaxClock
    /\ clock' = clock + 1
    /\ UNCHANGED << session_state, uploaded_file, page, clients, chat_sessions,
                    active_sessions, in_flight, chat_returns >>
    /\ UNCHANGED analysis

NextChatbot ==
    \/ \E u \in Users : CreateSessionCalled(u)
    \/ \E u \in Users : ChatCalled(u)
    \/ \E u \in Users : ChatCompletes(u)
    \/ Tick

SpecChatbot == InitChatbot /\ [][NextChatbot]_vars

(***************************************************************************)
(* Claims about the chat sessions of the shared chatbot                    *)
(***************************************************************************)
\* The messages of one role in the session object at position i
MessagesOf(i, role) ==
    Cardinality({ k \in 1..Len(chat_sessions[i].messages) :
                    chat_sessions[i].messages[k].role = role })

\* The chat calls on session object i that are awaiting their provider
Awaiting(i) ==
    Cardinality({ c \in DOMAIN in_flight :
                    in_flight[c] # NoValue /\ in_flight[c].session = i })

\* The returned chat calls on session object i in which one of the calls
\* named in where raised
RaisedIn(i, where) ==
    Cardinality({ k \in 1..Len(chat_returns) :
                    /\ chat_returns[k].session = i
                    /\ chat_returns[k].raised_in \in where })

\* The returned chat calls on session object i that reached the try block
Entered(i) ==
    Cardinality({ k \in 1..Len(chat_returns) :
                    /\ chat_returns[k].session = i
                    /\ (chat_returns[k].success \/ chat_returns[k].raised_in # None) })

\* The returned chat calls that found session object i and no client
Rejected(i) ==
    Cardinality({ k \in 1..Len(chat_returns) :
                    /\ chat_returns[k].session = i
                    /\ ~chat_returns[k].success
                    /\ chat_returns[k].raised_in = None })

\* What C29 says of session object i when the calls counted as failed
\* requests are those that raised in one of where
MessageListShape(i, where) ==
    /\ chat_sessions[i].messages[1].role = "system"
    /\ MessagesOf(i, "system") = 1
    /\ MessagesOf(i, "assistant") <= MessagesOf(i, "user")
    /\ MessagesOf(i, "user") - MessagesOf(i, "assistant")
           = RaisedIn(i, where) + Awaiting(i)
    /\ MessagesOf(i, "user") = Entered(i) + Awaiting(i)
    /\ Len(chat_sessions[i].messages)
           = 1 + MessagesOf(i, "user") + MessagesOf(i, "assistant")

\* C29 (as amended): every chat session's message list begins with its only
\* system message, has no more assistant than user messages, and the two
\* counts differ by the number of chat calls on the session in which the
\* provider request or the extraction of the response text raised (plus the
\* calls still awaiting their provider); calls that return before the try
\* block append nothing.
C29_UserMinusAssistantCountsRaisingCalls ==
    \A i \in 1..Len(chat_sessions) :
        MessageListShape(i, {"chat_completion", "get_response_text"})

\* C29 (as stated): the two counts differ by the number of chat calls
\* whose provider request raised.
C29_UserMinusAssistantCountsRaisingRequests ==
    \A i \in 1..Len(chat_sessions) : MessageListShape(i, {"chat_completion"})

\* C29 (witness): a session on which one call was rejected for its
\* provider and another raised while the response text was extracted
C29_RejectedAndExtractionRaised ==
    \E i \in 1..Len(chat_sessions) :
        /\ Rejected(i) = 1
        /\ RaisedIn(i, {"get_response_text"}) = 1
        /\ Awaiting(i) = 0

\* C30 (as stated): every chat session that create_session returned the id
\* of is the session get_session retrieves for that id.
C30_NoSessionReplaced ==
    \A i \in 1..Len(chat_sessions) :
        GetSession(active_sessions, chat_sessions[i].session_id) = i

\* C30 (witness): two callers had sessions created from their own results
\* within the same clock second
C30_TwoCallersSameSecond ==
    \E i, j \in 1..Len(chat_sessions) :
        /\ i < j
        /\ chat_sessions[i].created_at = chat_sessions[j].created_at
        /\ chat_sessions[i].analysis_results.object[1]
               # chat_sessions[j].analysis_results.object[1]

(***************************************************************************)
(* The dashboard: main, analyze_file and display_chatbot_interface of      *)
(* streamlit_app.py, one action per script run of a session.               *)
(***************************************************************************)
\* The upload limit of the start button, in megabytes
MaxFileSizeMb == 300

\* The users of the dashboard ask at most MaxQuestions questions
MaxQuestions == 1

\* str.startswith
StartsWith(s, prefix) ==
    Len(s) >= Len(prefix) /\ SubSeq(s, 1, Len(prefix)) = prefix

SetDefault(d, key, value) == IF Has(d, key) THEN d ELSE (key :> value) @@ d

\* The first statements of every script run resetting the stored results
InitializeSessionStateResetting(ss) ==
    (("analysis_completed" :> FALSE) @@ ("current_analysis_results" :> NoValue)
        @@ ("current_filename" :> NoText))
    @@ SetDefault(SetDefault(SetDefault(ss, "analyses_count", 0),
                             "gltf_analyses", 0),
                  "total_confidence", RatZero)

\* The first statements of every script run: each key is set only when the
\* session state does not have it
InitializeSessionState(ss) ==
    SetDefault(SetDefault(SetDefault(
        SetDefault(SetDefault(SetDefault(ss, "analyses_count", 0),
                              "gltf_analyses", 0),
                   "total_confidence", RatZero),
        "analysis_completed", FALSE), "current_analysis_results", NoValue),
        "current_filename", NoText)

\* analysis_completed and current_analysis_results
Stored(ss) ==
    /\ Has(ss, "analysis_completed")
    /\ ss.analysis_completed
    /\ ss.current_analysis_results # NoValue

\* The handlers of both buttons: the stored results and the chat session id
\* are dropped
ClearStored(ss) ==
    Without([ss EXCEPT !.analysis_completed = FALSE,
                       !.current_analysis_results = NoValue,
                       !.current_filename = NoText],
            {"chat_session_id"})

\* confidence_score of analyze_file
ConfidenceOf(results) ==
    IF Has(results.technical_details, "confidence_score")
    THEN results.technical_details.confidence_score
    ELSE DictGet(results.screening_report.confidence_levels, "overall_analysis",
                 RatZero)

\* analyze_file counting the analysis before the analyzer is called
AnalyzeFileCountingFirst(ss, upload, u) ==
    LET Counted(results) ==
            [ss EXCEPT !.analyses_count = @ + 1,
                       !.gltf_analyses =
                           IF StartsWith(results.file_type, <<"G","L","T","F">>)
                           THEN @ + 1 ELSE @,
                       !.total_confidence = RatAdd(@, ConfidenceOf(results)),
                       !.current_analysis_results = results,
                       !.current_filename = upload.name,
                       !.analysis_completed = TRUE]
        After(outcome) ==
            IF outcome.raised # None
            THEN [state |-> [ss EXCEPT !.analyses_count = @ + 1],
                  error |-> outcome.raised]
            ELSE [state |-> Counted(outcome.results), error |-> None]
    IN  After(CLO3DAnalyzeFile(upload, << u, ss.analyses_count + 1 >>))

\* analyze_file(uploaded_file) in session u: the session state it leaves
\* and the exception its except clause reports
AnalyzeFile(ss, upload, u) ==
    LET Counted(results) ==
            [ss EXCEPT !.analyses_count = @ + 1,
                       !.gltf_analyses =
                           IF StartsWith(results.file_type, <<"G","L","T","F">>)
                           THEN @ + 1 ELSE @,
                       !.total_confidence = RatAdd(@, ConfidenceOf(results)),
                       !.current_analysis_results = results,
                       !.current_filename = upload.name,
                       !.analysis_completed = TRUE]
        After(outcome) ==
            IF outcome.raised # None
            THEN [state |-> ss, error |-> outcome.raised]
            ELSE [state |-> Counted(outcome.results), error |-> None]
    IN  After(CLO3DAnalyzeFile(upload, << u, ss.analyses_count + 1 >>))

\* What a script run rendered
Page(error, ss) == [error |-> error, results |-> Stored(ss)]
BlankPage == [error |-> None, results |-> FALSE]

\* The end of every script run: the stored results are displayed, and
\* display_chatbot_interface creates the chat session when the session
\* state has no chat_session_id
DisplayResults(u, ss, error) ==
    /\ page' = [page EXCEPT ![u] = Page(error, ss)]
    /\ IF /\ Stored(ss)
          /\ clients # <<>>
          /\ DictGet(ss, "chat_session_id", NoText) = NoText
       THEN /\ CreateSession(ss.current_analysis_results)
            /\ session_state' =
                   [session_state EXCEPT ![u] =
                      ("chat_session_id" :> SessionId(clock)) @@ ss]
       ELSE /\ session_state' = [session_state EXCEPT ![u] = ss]
            /\ UNCHANGED << chat_sessions, active_sessions >>

\* --- the files a user uploads --------------------------------------------
ShirtScene ==
    Scene(<<>>,
          << [name |-> <<"c","o","t","t","o","n","_","s","h","i","r","t">>,
              extensions |-> CloExtension] >>,
          <<>>, <<>>, <<>>)

Uploads ==
    { UploadedFile(<<"s","h","i","r","t",".","g","l","t","f">>, 2,
                   JsonFile(WithGenerator(ShirtScene,
                       <<"C","L","O","3","D"," ","F","a","s","h","i","o","n"," ","S","t","u","d","i","o">>))),
      UploadedFile(<<"b","r","o","k","e","n",".","G","L","T","F">>, 1, InvalidJson),
      UploadedFile(<<"d","r","e","s","s",".","z","p","r","j">>, 40, InvalidJson),
      UploadedFile(<<"h","u","g","e",".","o","b","j">>, 301, InvalidJson) }

InitDashboard ==
    /\ InitAnalyzerIdle
    /\ session_state = [u \in Users |-> EmptyDict]
    /\ uploaded_file = [u \in Users |-> NoValue]
    /\ page = [u \in Users |-> BlankPage]
    /\ clients \in {<<>>, <<"openai", "groq">>}
    /\ chat_sessions = <<>>
    /\ active_sessions = <<>>
    /\ clock = 0
    /\ in_flight = [u \in Users |-> NoValue]
    /\ chat_returns = <<>>

\* A script run of session u in which no button is pressed: the first load
\* of the page, or an interaction with a widget that has no handler
Rerun(u) ==
    /\ in_flight[u] = NoValue
    /\ DisplayResults(u, InitializeSessionState(session_state[u]), None)
    /\ UNCHANGED << uploaded_file, clients, clock, in_flight, chat_returns >>
    /\ UNCHANGED analysis

\* The user of session u puts another file into the uploader
UploadFile(u) ==
    /\ in_flight[u] = NoValue
    /\ \E f \in Uploads \ {uploaded_file[u]} :
           uploaded_file' = [uploaded_file EXCEPT ![u] = f]
    /\ DisplayResults(u, InitializeSessionState(session_state[u]), None)
    /\ UNCHANGED << clients, clock, in_flight, chat_returns >>
    /\ UNCHANGED analysis

\* The start button of session u: shown when the last run had a file
\* within the limit
PressStartAnalysis(u) ==
    LET Ran(analyzed) == DisplayResults(u, analyzed.state, analyzed.error)
    IN  /\ in_flight[u] = NoValue
        /\ uploaded_file[u] # NoValue
        /\ uploaded_file[u].size_mb <= MaxFileSizeMb
        /\ Has(session_state[u], "analyses_count")
        /\ session_state[u].analyses_count < MaxAnalyses
        /\ Ran(AnalyzeFile(ClearStored(InitializeSessionState(session_state[u])),
                           uploaded_file[u], u))
        /\ UNCHANGED << uploaded_file, clients, clock, in_flight, chat_returns >>
        /\ UNCHANGED analysis

\* The clear button of session u, shown with the stored results; its
\* handler ends with st.rerun()
PressClearResults(u) ==
    /\ in_flight[u] = NoValue
    /\ page[u].results
    /\ DisplayResults(u, InitializeSessionState(
                             ClearStored(InitializeSessionState(session_state[u]))),
                      None)
    /\ UNCHANGED << uploaded_file, clients, clock, in_flight, chat_returns >>
    /\ UNCHANGED analysis

\* The chat widgets are shown with the results once the chat session exists
ChatShown(u) ==
    /\ ChatsStarted < MaxQuestions
    /\ in_flight[u] = NoValue
    /\ page[u].results
    /\ clients # <<>>
    /\ Has(session_state[u], "chat_session_id")

\* The user of session u sends a question with st.chat_input: the run
\* calls chat and waits for it
SubmitChatInput(u) ==
    /\ ChatShown(u)
    /\ \E question \in Questions, selected_provider \in Range(clients) :
           ChatStarts(u, session_state[u].chat_session_id, question,
                      selected_provider, "chat_input")
    /\ UNCHANGED << session_state, uploaded_file, page, clients, active_sessions,
                    clock >>
    /\ UNCHANGED analysis

\* The user of session u presses a suggested question: the handler stores
\* it and reruns, and the next run deletes it, calls chat and waits
PressSuggestion(u) ==
    /\ ChatShown(u)
    /\ \E question \in Questions, selected_provider \in Range(clients) :
           ChatStarts(u, session_state[u].chat_session_id, question,
                      selected_provider, "suggestion")
    /\ UNCHANGED << session_state, uploaded_file, page, clients, active_sessions,
                    clock >>
    /\ UNCHANGED analysis

\* The chat call of session u returns and its script run ends: the answer
\* to a suggested question is kept in chat_responses
ChatAnswered(u) ==
    LET Kept(call, outcome) ==
            IF call.via = "suggestion"
            THEN session_state' =
                     [session_state EXCEPT ![u] =
                        ("chat_responses" :>
                            Append(DictGet(session_state[u], "chat_responses", <<>>),
                                   [ question |-> call.question,
                                     response |-> outcome.response,
                                     success  |-> outcome.success ]))
                        @@ session_state[u]]
            ELSE UNCHANGED session_state
    IN  /\ in_flight[u] # NoValue
        /\ in_flight[u].via # "api"
        /\ \E reply \in Replies :
               /\ ChatEnds(u, reply)
               /\ Kept(in_flight[u], ChatOutcome(in_flight[u].provider, reply))
        /\ UNCHANGED << uploaded_file, page, clients, active_sessions, clock >>
        /\ UNCHANGED analysis

NextDashboard ==
    \/ \E u \in Users : Rerun(u)
    \/ \E u \in Users : UploadFile(u)
    \/ \E u \in Users : PressStartAnalysis(u)
    \/ \E u \in Users : PressClearResults(u)
    \/ \E u \in Users : SubmitChatInput(u)
    \/ \E u \in Users : PressSuggestion(u)
    \/ \E u \in Users : ChatAnswered(u)
    \/ Tick

SpecDashboard == InitDashboard /\ [][NextDashboard]_vars

(***************************************************************************)
(* Claims about the dashboard's session state                              *)
(***************************************************************************)
StoredKeys(ss) ==
    << ss.analysis_completed, ss.current_analysis_results, ss.current_filename >>

\* C26: once results are stored in a session, every step that is neither a
\* press of that session's start button nor of its clear button leaves
\* analysis_completed, current_analysis_results and current_filename as
\* they are, and the results are displayed by the run.
C26_StoredResultsPersist ==
    [][\A u \in Users :
          \/ ~Stored(session_state[u])
          \/ /\ StoredKeys(session_state'[u]) = StoredKeys(session_state[u])
             /\ page'[u].results
          \/ PressClearResults(u)
          \/ PressStartAnalysis(u)]_vars

\* C26 (witness): results still stored and displayed after the user put
\* another file into the uploader and had a suggested question answered
C26_StoredAcrossInteractions ==
    \E u \in Users :
        /\ Stored(session_state[u])
        /\ page[u].results
        /\ uploaded_file[u].name # session_state[u].current_filename
        /\ Has(session_state[u], "chat_responses")

\* C27 (as stated): a chat_session_id in a session's state names a chat
\* session that was created from the results stored in that state.
C27_ChatSessionFromStoredResults ==
    \A u \in Users :
        Has(session_state[u], "chat_session_id")
        => /\ Stored(session_state[u])
           /\ GetSession(active_sessions, session_state[u].chat_session_id) # 0
           /\ chat_sessions[GetSession(active_sessions,
                                       session_state[u].chat_session_id)].analysis_results
                  = session_state[u].current_analysis_results

\* C27 (within the session): a chat_session_id is held only with stored
\* results, and one of the sessions created under that id was created from
\* them.
C27_SomeSessionFromStoredResults ==
    \A u \in Users :
        Has(session_state[u], "chat_session_id")
        => /\ Stored(session_state[u])
           /\ \E i \in 1..Len(chat_sessions) :
                  /\ chat_sessions[i].session_id = session_state[u].chat_session_id
                  /\ chat_sessions[i].analysis_results
                         = session_state[u].current_analysis_results

\* C27 (witness): two dashboard sessions hold the same chat_session_id
\* with different stored results
C27_TwoSessionsOneChatId ==
    \E u, v \in Users :
        /\ u # v
        /\ Has(session_state[u], "chat_session_id")
        /\ Has(session_state[v], "chat_session_id")
        /\ session_state[u].chat_session_id = session_state[v].chat_session_id
        /\ session_state[u].current_analysis_results
               # session_state[v].current_analysis_results

\* The counters of the sidebar, 0 before the first run
AnalysesCount(ss)   == DictGet(ss, "analyses_count", 0)
GltfAnalyses(ss)    == DictGet(ss, "gltf_analyses", 0)
TotalConfidence(ss) == DictGet(ss, "total_confidence", RatZero)

\* analysis_completed is false, current_analysis_results and
\* current_filename are None (or not set yet)
NothingStored(ss) ==
    /\ ~DictGet(ss, "analysis_completed", FALSE)
    /\ DictGet(ss, "current_analysis_results", NoValue) = NoValue
    /\ DictGet(ss, "current_filename", NoText) = NoText

\* The analyzer raises on the file in the uploader of session u
AnalyzerRaises(u) == CLO3DAnalyzeFile(uploaded_file[u], << u, 0 >>).raised # None

\* C28: a press of the start button on which the analyzer raises leaves no
\* stored results and the three counters as they were; the counters change
\* only in a press of the start button on which the analyzer returns, and
\* then they grow; gltf_analyses never exceeds analyses_count.
C28_FailedAnalysisStoresNothing ==
    [][\A u \in Users :
          /\ \/ /\ NothingStored(session_state'[u])
                /\ ~page'[u].results
                /\ AnalysesCount(session_state'[u]) = AnalysesCount(session_state[u])
                /\ GltfAnalyses(session_state'[u]) = GltfAnalyses(session_state[u])
                /\ TotalConfidence(session_state'[u]) = TotalConfidence(session_state[u])
             \/ ~PressStartAnalysis(u)
             \/ ~AnalyzerRaises(u)
          /\ \/ /\ AnalysesCount(session_state'[u]) = AnalysesCount(session_state[u])
                /\ GltfAnalyses(session_state'[u]) = GltfAnalyses(session_state[u])
                /\ TotalConfidence(session_state'[u]) = TotalConfidence(session_state[u])
             \/ /\ PressStartAnalysis(u)
                /\ ~AnalyzerRaises(u)
                /\ AnalysesCount(session_state'[u]) = AnalysesCount(session_state[u]) + 1
                /\ GltfAnalyses(session_state'[u]) - GltfAnalyses(session_state[u])
                       \in {0, 1}
                /\ TotalConfidence(session_state[u]).num
                       * TotalConfidence(session_state'[u]).den
                   <= TotalConfidence(session_state'[u]).num
                       * TotalConfidence(session_state[u]).den
          /\ GltfAnalyses(session_state'[u]) <= AnalysesCount(session_state'[u])]_vars

\* C28 (witness): the run of a session that has counted an analysis
\* reported an exception of the analyzer and stored nothing
C28_FailureAfterSuccess ==
    \E u \in Users :
        /\ page[u].error # None
        /\ AnalysesCount(session_state[u]) >= 1
        /\ GltfAnalyses(session_state[u]) < AnalysesCount(session_state[u])
        /\ NothingStored(session_state[u])

=============================================================================
